---- MODULE Spec2Model ----
(***************************************************************************)
(* Verification model of the musix-bot request/payment orchestration core: *)
(* QueueManager (utils/queue.ts), PaymentService (services/payment.ts)     *)
(* and StorageService (services/storage.ts).                               *)
(***************************************************************************)
EXTENDS Integers, Sequences, FiniteSets, TLC

(***************************************************************************)
(* Bounds of the model                                                     *)
(***************************************************************************)
\* number of addTask calls explored
MaxTasks == 3
\* number of createPaymentRequest calls explored
MaxPayments == 1
\* number of verification calls that may be awaiting the chain at once
MaxInflight == 2
\* the clock is read within MaxSlack ms after start-up and within MaxSlack ms
\* after the verification window measured from start-up
MaxSlack == 1
\* failures recorded for an orderId the ledger does not hold
MaxErrors == 1
\* number of mentions the started bot handles
MaxMentions == 2
\* number of payment confirmations of the bot awaiting the chain at once
MaxConfirming == 1
\* number of times the bot process is started
MaxStarts == 2
\* ceilings 1..MaxCeiling are explored besides the default one
MaxCeiling == 2
\* checkLimit calls explored beyond the ceiling within one window
MaxDenied == 2
\* the rate limiter is observed for MaxWindows hours after the first instant
MaxWindows == 1
\* number of registerJob calls explored
MaxRegistrations == 2
\* number of periodic triggers created
MaxTimers == 2
\* number of job invocations started
MaxRuns == 2
\* largest maxAttempts a retry call is given
MaxRetryAttempts == 3
\* number of generateAndSendMusic calls explored per process
MaxGenerations == 1
\* number of mentions delivered to the mention pipeline
MaxArrivals == 2
\* number of events the WebhookService may emit or have pending per process
MaxWebhooks == 2

(***************************************************************************)
(* QueueManager                                                            *)
(***************************************************************************)
\* private maxRetries: number = 3
maxRetries == 3

\* behaviours of a task's operation closure: always resolves, always rejects,
\* or resolves/rejects per invocation
TaskKinds == {"ok", "fail", "flaky"}

VARIABLES
    queue,        \* this.queue: task ids (index into tasks), head first
    tasks,        \* the QueueTask objects ever created: [kind, retries]
    processing,   \* this.processing
    loops,        \* live processQueue invocations: [pc, cur]
    log,          \* history: task id of every executeTask call, in order
    fate          \* history: "queued", "done" (shifted after success), "dropped"

qvars == <<queue, tasks, processing, loops, log, fate>>

\* Array.prototype.shift: removes the head, no-op on an empty array
shift(q) == IF q = <<>> THEN q ELSE Tail(q)

RemoveAt(s, i) == [j \in 1..(Len(s) - 1) |-> IF j < i THEN s[j] ELSE s[j + 1]]

\* entry of processQueue up to the first await
processQueue_flagNotSet(q, proc, lps) ==
    IF proc \/ Len(q) = 0
    THEN [processing |-> proc, loops |-> lps, exec |-> <<>>]
    ELSE [processing |-> proc,
          loops |-> Append(lps, [pc |-> "exec", cur |-> q[1]]),
          exec |-> <<q[1]>>]

processQueue(q, proc, lps) ==
    IF proc \/ Len(q) = 0
    THEN [processing |-> proc, loops |-> lps, exec |-> <<>>]
    ELSE [processing |-> TRUE,
          loops |-> Append(lps, [pc |-> "exec", cur |-> q[1]]),
          exec |-> <<q[1]>>]

\* loop i re-evaluates the while condition: next executeTask, or exit
whileLoop_flagLeftSet(q, proc, lps, i) ==
    IF Len(q) > 0
    THEN [processing |-> proc,
          loops |-> [lps EXCEPT ![i] = [pc |-> "exec", cur |-> q[1]]],
          exec |-> <<q[1]>>]
    ELSE [processing |-> proc, loops |-> RemoveAt(lps, i), exec |-> <<>>]

whileLoop(q, proc, lps, i) ==
    IF Len(q) > 0
    THEN [processing |-> proc,
          loops |-> [lps EXCEPT ![i] = [pc |-> "exec", cur |-> q[1]]],
          exec |-> <<q[1]>>]
    ELSE [processing |-> FALSE, loops |-> RemoveAt(lps, i), exec |-> <<>>]

\* catch branch with retries left: the head stays where it is
retryAtTail(q) == IF q = <<>> THEN q ELSE Append(Tail(q), Head(q))

retryInPlace(q) == q

\* catch branch: may the failed task be retried?
mayRetry(r) == r < maxRetries

QInit ==
    /\ queue = <<>>
    /\ tasks = <<>>
    /\ processing = FALSE
    /\ loops = <<>>
    /\ log = <<>>
    /\ fate = <<>>

\* addTask(id, task)
AddTask ==
    \E k \in TaskKinds :
        /\ Len(tasks) < MaxTasks
        /\ LET id == Len(tasks) + 1
               q1 == Append(queue, id)
               r  == IF ~processing
                     THEN processQueue(q1, processing, loops)
                     ELSE [processing |-> processing, loops |-> loops, exec |-> <<>>]
           IN /\ tasks' = Append(tasks, [kind |-> k, retries |-> 0])
              /\ fate' = Append(fate, "queued")
              /\ queue' = q1
              /\ processing' = r.processing
              /\ loops' = r.loops
              /\ log' = log \o r.exec

\* await executeTask(currentTask) resolves: shift, next iteration
TaskSucceeds ==
    \E i \in DOMAIN loops :
        /\ loops[i].pc = "exec"
        /\ tasks[loops[i].cur].kind \in {"ok", "flaky"}
        /\ LET q1 == shift(queue)
               r  == whileLoop(q1, processing, loops, i)
           IN /\ queue' = q1
              /\ fate' = IF queue = <<>> THEN fate
                         ELSE [fate EXCEPT ![Head(queue)] = "done"]
              /\ processing' = r.processing
              /\ loops' = r.loops
              /\ log' = log \o r.exec
              /\ UNCHANGED tasks

\* await executeTask(currentTask) rejects: retry after the delay, or drop
TaskFails ==
    \E i \in DOMAIN loops :
        /\ loops[i].pc = "exec"
        /\ tasks[loops[i].cur].kind \in {"fail", "flaky"}
        /\ IF mayRetry(tasks[loops[i].cur].retries)
           THEN /\ tasks' = [tasks EXCEPT ![loops[i].cur].retries = @ + 1]
                /\ loops' = [loops EXCEPT ![i].pc = "sleep"]
                /\ queue' = retryInPlace(queue)
                /\ UNCHANGED <<processing, log, fate>>
           ELSE LET q1 == shift(queue)
                    r  == whileLoop(q1, processing, loops, i)
                IN /\ queue' = q1
                   /\ fate' = IF queue = <<>> THEN fate
                              ELSE [fate EXCEPT ![Head(queue)] = "dropped"]
                   /\ processing' = r.processing
                   /\ loops' = r.loops
                   /\ log' = log \o r.exec
                   /\ UNCHANGED tasks

\* the retryDelay timer fires: next iteration of the while loop
WakeUp ==
    \E i \in DOMAIN loops :
        /\ loops[i].pc = "sleep"
        /\ LET r == whileLoop(queue, processing, loops, i)
           IN /\ processing' = r.processing
              /\ loops' = r.loops
              /\ log' = log \o r.exec
              /\ UNCHANGED <<queue, tasks, fate>>

(***************************************************************************)
(* PaymentService and StorageService                                       *)
(***************************************************************************)
\* retryConfig.maxAttempts
maxAttempts == 3
\* retryConfig.maxVerificationTime: 30 * 60 * 1000 ms
maxVerificationTime == 1800000
\* payment.amount, USD
amount == 10
\* getEtherPrice(), USD per ether
etherPrice == 2000

\* inbound mentions with a prompt; the two authors' ids end in the same
\* four characters
Mentions == { [id |-> "t1", author_id |-> <<"a", "l", "i", "c", "e">>],
              [id |-> "t2", author_id |-> <<"m", "a", "l", "i", "c", "e">>] }
\* transaction references a user may quote; NoTx is an absent txHash
TxHashes == {"txGood"}
NoTx == "none"
\* process.env.ETH_WALLET
EthWallet == "wallet"
\* an orderId no createPaymentRequest call can produce
BogusOrder == <<0, <<"n", "o", "n", "e">>>>

VARIABLES
    now,             \* Date.now(), ms
    heap,            \* the PaymentDetails objects ever created
    payments,        \* this.payments: orderId -> PaymentDetails (heap index)
    failedPayments,  \* this.failedPayments: orderId -> [attempts, error]
    requests,        \* StorageService.requests, in insertion order
    inflight,        \* verifyPayment calls suspended in the chain request
    ret              \* outcome of the operation step just taken

pvars == <<now, heap, payments, failedPayments, requests, inflight, ret>>

Put(m, k, v) == [x \in DOMAIN m \cup {k} |-> IF x = k THEN v ELSE m[x]]
Del(m, k) == [x \in DOMAIN m \ {k} |-> m[x]]
Abs(x) == IF x < 0 THEN -x ELSE x

\* userId.slice(-4)
slice4(s) == IF Len(s) <= 4 THEN s ELSE SubSeq(s, Len(s) - 3, Len(s))

\* `PAY-${Date.now()}-${userId.slice(-4)}`
OrderId(ts, u) == <<ts, slice4(u)>>

\* web3.eth.getTransaction(txHash): value in micro-ether
ChainTx(h) ==
    IF h = "txGood" THEN [to |-> EthWallet, value |-> 5200]
    ELSE [to |-> EthWallet, value |-> 4000]

\* outcome record of the operation step just taken:
\*   op, txHash   the operation and the proof it was given
\*   orderId      the orderId it was given
\*   obj          the ledger entry found for the orderId (heap index), 0 if none
\*   atCall       the entry's status when the operation was called
\*   path         branch taken: norecord, notfound, expired, maxretries, chain
\*   result       "true", "false", or "awaiting" (suspended in the chain request)
\*   raised       the chain request of the call raised
\*   log          the re-insertions a recovery attempted, in the order made
NoRet == [op |-> "none", txHash |-> NoTx, orderId |-> BogusOrder, obj |-> 0,
          atCall |-> "none", path |-> "none", result |-> "none", raised |-> FALSE,
          log |-> <<>>]

\* error.message of the exception a failing RPC call raises
RpcErrorMessage == "connection refused"

\* a suspended verifyPayment call
Call(r) == [op |-> r.op, txHash |-> r.txHash, obj |-> r.obj, atCall |-> r.atCall]

hasPaymentExpired_inclusive(p, t) == t - p.timestamp >= maxVerificationTime

hasPaymentExpired(p, t) == t - p.timestamp > maxVerificationTime

\* rpcOk = FALSE: the RPC call throws (or web3 is not configured)
verifyEthereumTransaction(h, rpcOk) ==
    IF ~rpcOk THEN FALSE
    ELSE LET tx == ChainTx(h)
             expectedAmount == (amount * 1000000) \div etherPrice
         IN /\ tx.to = EthWallet
            /\ 100 * Abs(tx.value - expectedAmount) <= 5 * expectedAmount

\* currentBalance and lastBalance in payments received; the balance stored
\* under balance_<wallet> is read and written by this function alone
checkPaymentAddresses(currentBalance, lastBalance, rpcOk) ==
    IF ~rpcOk THEN FALSE ELSE currentBalance > lastBalance

\* StorageService.updatePaymentStatus: first request carrying the orderId
updatePaymentStatus(h, reqs, o, s) ==
    LET hits == {i \in DOMAIN reqs : h[reqs[i].payment].orderId = o}
    IN IF hits = {} THEN h
       ELSE LET i == CHOOSE j \in hits : \A k \in hits : j <= k
            IN [h EXCEPT ![reqs[i].payment].status = s]

\* StorageService.storeRequest: Map.set keeps the position of an existing key
storeRequest(reqs, r) ==
    LET hits == {i \in DOMAIN reqs : reqs[i].tweetId = r.tweetId}
    IN IF hits = {} THEN Append(reqs, r)
       ELSE [i \in DOMAIN reqs |-> IF i \in hits THEN r ELSE reqs[i]]

handleSuccessfulPayment(L, reqs, obj) ==
    LET o  == L.heap[obj].orderId
        h1 == [L.heap EXCEPT ![obj].status = "completed"]
    IN [heap |-> updatePaymentStatus(h1, reqs, o, "completed"),
        payments |-> Put(L.payments, o, obj),
        failedPayments |-> Del(L.failedPayments, o)]

handleFailedVerification(L, obj) ==
    LET o  == L.heap[obj].orderId
        fp == L.failedPayments
    IN [L EXCEPT !.failedPayments =
            Put(fp, o, [attempts |-> IF o \in DOMAIN fp THEN fp[o].attempts + 1 ELSE 1,
                        error |-> "Payment verification failed"])]

handleMaxRetriesExceeded(L, reqs, obj) ==
    LET o  == L.heap[obj].orderId
        h1 == [L.heap EXCEPT ![obj].status = "failed"]
    IN [heap |-> updatePaymentStatus(h1, reqs, o, "failed"),
        payments |-> Put(L.payments, o, obj),
        failedPayments |-> L.failedPayments]

handleExpiredPayment(L, reqs, obj) ==
    LET o  == L.heap[obj].orderId
        h1 == [L.heap EXCEPT ![obj].status = "failed"]
    IN [heap |-> updatePaymentStatus(h1, reqs, o, "failed"),
        payments |-> Put(L.payments, o, obj),
        failedPayments |-> L.failedPayments]

handlePaymentError(L, o, msg) ==
    LET fp == L.failedPayments
    IN [L EXCEPT !.failedPayments =
            Put(fp, o, [attempts |-> IF o \in DOMAIN fp THEN fp[o].attempts + 1 ELSE 1,
                        error |-> msg])]

\* verifyPayment and retryVerification up to the chain request.
\* r: the call's description so far; gives the ledger, the outcome and the
\* suspended call, if any
verifyPayment(L, reqs, t, o, tx, r) ==
    IF o \notin DOMAIN L.payments
    THEN [L |-> handlePaymentError(L, o, "Payment not found"),
          ret |-> [r EXCEPT !.path = "notfound", !.result = "false"],
          call |-> <<>>]
    ELSE LET obj == L.payments[o]
             p   == L.heap[obj]
             q   == [r EXCEPT !.obj = obj, !.atCall = p.status]
             attempts == IF o \in DOMAIN L.failedPayments
                         THEN L.failedPayments[o].attempts ELSE 0
         IN IF hasPaymentExpired(p, t)
            THEN [L |-> handleExpiredPayment(L, reqs, obj),
                  ret |-> [q EXCEPT !.path = "expired", !.result = "false"],
                  call |-> <<>>]
            ELSE IF attempts >= maxAttempts
            THEN [L |-> handleMaxRetriesExceeded(L, reqs, obj),
                  ret |-> [q EXCEPT !.path = "maxretries", !.result = "false"],
                  call |-> <<>>]
            ELSE [L |-> L,
                  ret |-> [q EXCEPT !.path = "chain", !.result = "awaiting"],
                  call |-> <<Call(q)>>]

\* the instants at which Date.now() is read
Instants == (0..MaxSlack) \cup (maxVerificationTime..(maxVerificationTime + MaxSlack))

\* retryFailedPayment up to the chain request of the verifyPayment it makes
retryFailedPayment_noRecordCheck(L, reqs, t, o, r) ==
    verifyPayment(L, reqs, t, o, NoTx, r)

retryFailedPayment(L, reqs, t, o, r) ==
    IF o \notin DOMAIN L.failedPayments
    THEN [L |-> L,
          ret |-> [r EXCEPT !.path = "norecord", !.result = "false",
                            !.obj = IF o \in DOMAIN L.payments THEN L.payments[o] ELSE 0,
                            !.atCall = IF o \in DOMAIN L.payments
                                       THEN L.heap[L.payments[o]].status ELSE "none"],
          call |-> <<>>]
    ELSE verifyPayment([L EXCEPT !.failedPayments[o].attempts = 0],
                       reqs, t, o, NoTx, r)

Ledger == [heap |-> heap, payments |-> payments, failedPayments |-> failedPayments]

\* orderIds a caller may present
OrderIds == DOMAIN payments \cup DOMAIN failedPayments \cup {BogusOrder}

PInit ==
    /\ now = 0
    /\ heap = <<>>
    /\ payments = <<>>
    /\ failedPayments = <<>>
    /\ requests = <<>>
    /\ inflight = <<>>
    /\ ret = NoRet

\* MusiXBot.handleMention for a mention with a prompt:
\* createPaymentRequest, then storeRequest
handleMention(n) ==
    \E mention \in Mentions :
        /\ Len(heap) < n
        /\ LET u   == mention.author_id
               t   == mention.id
               o   == OrderId(now, u)
               obj == Len(heap) + 1
           IN /\ heap' = Append(heap, [orderId |-> o, userId |-> u, tweetId |-> t,
                                       status |-> "pending", timestamp |-> now])
              /\ payments' = Put(payments, o, obj)
              /\ requests' = storeRequest(requests,
                                 [tweetId |-> t, userId |-> u, payment |-> obj,
                                  timestamp |-> now])
              /\ ret' = [NoRet EXCEPT !.op = "createPaymentRequest", !.orderId = o,
                                      !.obj = obj, !.result = "created"]
        /\ UNCHANGED <<now, failedPayments, inflight>>

HandleMention == handleMention(MaxPayments)

\* verifyPayment(orderId, txHash?) called by a payment reply, a webhook or a
\* scheduled re-check
VerifyPayment ==
    \E o \in OrderIds, tx \in TxHashes \cup {NoTx} :
        /\ IF o \notin DOMAIN payments /\ o \in DOMAIN failedPayments
           THEN failedPayments[o].attempts < MaxErrors
           ELSE TRUE
        /\ LET r == [NoRet EXCEPT !.op = "verifyPayment", !.txHash = tx, !.orderId = o]
               v == verifyPayment(Ledger, requests, now, o, tx, r)
           IN /\ Len(inflight) + Len(v.call) <= MaxInflight
              /\ heap' = v.L.heap
              /\ payments' = v.L.payments
              /\ failedPayments' = v.L.failedPayments
              /\ inflight' = inflight \o v.call
              /\ ret' = v.ret
        /\ UNCHANGED <<now, requests>>

\* retryFailedPayment(orderId) called by a 'retry:' reply
RetryFailedPayment ==
    \E o \in OrderIds :
        /\ LET r == [NoRet EXCEPT !.op = "retryFailedPayment", !.orderId = o]
               v == retryFailedPayment(Ledger, requests, now, o, r)
           IN /\ Len(inflight) + Len(v.call) <= MaxInflight
              /\ heap' = v.L.heap
              /\ payments' = v.L.payments
              /\ failedPayments' = v.L.failedPayments
              /\ inflight' = inflight \o v.call
              /\ ret' = v.ret
        /\ UNCHANGED <<now, requests>>

\* the chain request of a suspended call settles: rest of retryVerification.
\* rpcOk: the RPC answered; paid: the wallet balance has grown since the
\* previous balance check
chainResponds(i, rpcOk, paid) ==
        LET c       == inflight[i]
            isValid == IF c.txHash # NoTx
                       THEN verifyEthereumTransaction(c.txHash, rpcOk)
                       ELSE checkPaymentAddresses(IF paid THEN 1 ELSE 0, 0, rpcOk)
            L1      == IF isValid
                       THEN handleSuccessfulPayment(Ledger, requests, c.obj)
                       ELSE handleFailedVerification(Ledger, c.obj)
        IN /\ heap' = L1.heap
           /\ payments' = L1.payments
           /\ failedPayments' = L1.failedPayments
           /\ inflight' = RemoveAt(inflight, i)
           /\ ret' = [NoRet EXCEPT !.op = c.op, !.txHash = c.txHash,
                                   !.orderId = heap[c.obj].orderId, !.obj = c.obj,
                                   !.atCall = c.atCall, !.path = "chain",
                                   !.result = IF isValid THEN "true" ELSE "false",
                                   !.raised = ~rpcOk]
           /\ UNCHANGED <<now, requests>>

ChainResponds ==
    \E i \in DOMAIN inflight, rpcOk \in BOOLEAN, paid \in BOOLEAN :
        chainResponds(i, rpcOk, paid)

\* time passes: the clock moves on to a later instant
Tick ==
    \E t \in Instants :
        /\ t > now
        /\ now' = t
        /\ ret' = NoRet
        /\ UNCHANGED <<heap, payments, failedPayments, requests, inflight>>

(***************************************************************************)
(* MusiXBot and RecoverySystem (utils/recovery.ts)                         *)
(***************************************************************************)
VARIABLES
    isRunning,    \* the bot process is up (MusiXBot.start has succeeded)
    starts,       \* number of times the process has been started
    checkpoint,   \* value held by durable storage under 'system_checkpoint'
    savedStore,   \* history: the RequestStore as it was when the value was written
    contexts,     \* the reply handlers awaiting the calls of inflight, in the
                  \* same order: [handler, tweetId, orderId]
    generation    \* the generateAndSendMusic calls made: [tweetId, orderId, stage,
                  \* status]; status is the ledger status of the request's
                  \* order when the generation provider was invoked

bvars == <<isRunning, starts, checkpoint, savedStore, contexts, generation>>

\* the correlation ids a reply may refer to
TweetIds == {m.id : m \in Mentions}

\* PaymentService.getPaymentStatus(orderId)
getPaymentStatus(L, o) ==
    IF o \in DOMAIN L.payments THEN L.heap[L.payments[o]].status ELSE "not_found"

\* StorageService.getRequest(tweetId): position in the store, 0 for undefined
getRequest(reqs, t) ==
    LET hits == {i \in DOMAIN reqs : reqs[i].tweetId = t}
    IN IF hits = {} THEN 0 ELSE CHOOSE i \in hits : TRUE

\* the rest of handlePaymentConfirmation / handlePaymentRecovery once the
\* verification has returned isVerified: the generateAndSendMusic call made
generateAndSendMusic(h, reqs, ctx, isVerified) ==
    IF ~isVerified THEN <<>>
    ELSE IF ctx.handler = "confirmation"
    THEN <<[tweetId |-> ctx.tweetId, orderId |-> ctx.orderId,
            stage |-> "replying", status |-> "none"]>>
    ELSE IF getRequest(reqs, ctx.tweetId) = 0 THEN <<>>
    ELSE <<[tweetId |-> ctx.tweetId,
            orderId |-> h[reqs[getRequest(reqs, ctx.tweetId)].payment].orderId,
            stage |-> "replying", status |-> "none"]>>

\* durable storage holds nothing under the key
NoCheckpoint == [pendingRequests |-> <<>>, pendingPayments |-> <<>>, written |-> FALSE]

\* Date.prototype.toJSON: a Date is serialised as an ISO string and parsed
\* back as that string, not as a Date. A Date is its epoch milliseconds
\* (>= 0); the ISO string of the Date t is written -(t + 1). A string is
\* serialised as itself
isDate(x) == x >= 0

toJSON(x) == IF isDate(x) THEN -(x + 1) ELSE x

\* JSON.stringify / JSON.parse of a PaymentDetails object: a copy by value
jsonPayment(p) ==
    [orderId |-> p.orderId, userId |-> p.userId, tweetId |-> p.tweetId,
     status |-> p.status,
     timestamp |-> toJSON(p.timestamp)]

\* JSON.stringify / JSON.parse of a StoredRequest: the payment is embedded
jsonRequest(h, r) ==
    [tweetId |-> r.tweetId, userId |-> r.userId, payment |-> jsonPayment(h[r.payment]),
     timestamp |-> toJSON(r.timestamp)]

\* StorageService.getPendingRequests: the stored requests whose payment is
\* pending, in store order
getPendingRequests(h, reqs) ==
    SelectSeq(reqs, LAMBDA r : h[r.payment].status = "pending")

\* StorageService.getPendingPayments: the payments of those requests
getPendingPayments(h, reqs) ==
    LET pr == getPendingRequests(h, reqs)
    IN [i \in DOMAIN pr |-> h[pr[i].payment]]

\* the RequestStore as a caller sees it: correlation id -> payment status
StoreView(h, reqs) ==
    [t \in {reqs[i].tweetId : i \in DOMAIN reqs} |->
        LET i == CHOOSE j \in DOMAIN reqs : reqs[j].tweetId = t
        IN h[reqs[i].payment].status]

\* saveCheckpoint: kvOk is whether the durable-storage calls succeed
saveCheckpoint(h, reqs, cp, kvOk) ==
    IF kvOk
    THEN LET pr == getPendingRequests(h, reqs)
             pp == getPendingPayments(h, reqs)
         IN [pendingRequests |-> [i \in DOMAIN pr |-> jsonRequest(h, pr[i])],
             pendingPayments |-> [i \in DOMAIN pp |-> jsonPayment(pp[i])],
             written |-> TRUE]
    ELSE cp

\* recoverRequest: storeRequest of the parsed request, whose payment is a
\* fresh object. ok: the re-insertion does not raise; a raised error is
\* caught and logged here. S.raised: an error has left the operation
recoverRequest_rethrows(S, request, ok) ==
    LET obj == Len(S.heap) + 1
        lg == Append(S.log, [kind |-> "request", id |-> request.tweetId, ok |-> ok])
    IN IF ok
       THEN [heap |-> Append(S.heap, request.payment),
             requests |-> storeRequest(S.requests,
                             [tweetId |-> request.tweetId, userId |-> request.userId,
                              payment |-> obj, timestamp |-> request.timestamp]),
             log |-> lg, raised |-> FALSE]
       ELSE [S EXCEPT !.log = lg, !.raised = TRUE]

recoverRequest(S, request, ok) ==
    LET obj == Len(S.heap) + 1
        lg == Append(S.log, [kind |-> "request", id |-> request.tweetId, ok |-> ok])
    IN IF ok
       THEN [heap |-> Append(S.heap, request.payment),
             requests |-> storeRequest(S.requests,
                             [tweetId |-> request.tweetId, userId |-> request.userId,
                              payment |-> obj, timestamp |-> request.timestamp]),
             log |-> lg, raised |-> FALSE]
       ELSE [S EXCEPT !.log = lg]

\* recoverPayment: updatePaymentStatus(payment.orderId, payment.status); a
\* raised error is caught and logged here
recoverPayment(S, payment, ok) ==
    LET lg == Append(S.log, [kind |-> "payment", id |-> payment.tweetId, ok |-> ok])
    IN IF ok
       THEN [S EXCEPT !.heap = updatePaymentStatus(S.heap, S.requests,
                                                   payment.orderId, payment.status),
                      !.log = lg]
       ELSE [S EXCEPT !.log = lg]

\* for (const request of state.pendingRequests): an error leaving the body
\* ends the loop. bad: the positions whose re-insertion raises
RECURSIVE recoverRequests(_, _, _, _)
recoverRequests(S, list, k, bad) ==
    IF k > Len(list) \/ S.raised THEN S
    ELSE recoverRequests(recoverRequest(S, list[k], k \notin bad), list, k + 1, bad)

\* for (const payment of state.pendingPayments)
RECURSIVE recoverPayments(_, _, _, _)
recoverPayments(S, list, k, bad) ==
    IF k > Len(list) \/ S.raised THEN S
    ELSE recoverPayments(recoverPayment(S, list[k], k \notin bad), list, k + 1, bad)

\* recoverFromLastCheckpoint into the store S. readOk: the durable-storage
\* read succeeds; intact: the value read parses; badR, badP: the positions
\* of the snapshot's requests and payments whose re-insertion raises
recoverFromLastCheckpoint(S, cp, readOk, intact, badR, badP) ==
    IF ~readOk THEN [S |-> S, result |-> "raised"]
    ELSE IF ~cp.written THEN [S |-> S, result |-> "fresh"]
    ELSE IF ~intact THEN [S |-> S, result |-> "raised"]
    ELSE LET done == recoverPayments(recoverRequests(S, cp.pendingRequests, 1, badR),
                                     cp.pendingPayments, 1, badP)
         IN [S |-> done, result |-> IF done.raised THEN "raised" ELSE "recovered"]

BInit ==
    /\ isRunning = FALSE
    /\ starts = 0
    /\ checkpoint = NoCheckpoint
    /\ savedStore = <<>>
    /\ contexts = <<>>
    /\ generation = <<>>

\* a new process: index.ts constructs the bot and calls start(), which
\* recovers from the last checkpoint; when that raises, start() shuts the bot
\* down and the process exits
Start ==
    \E readOk \in BOOLEAN, intact \in BOOLEAN,
       badR \in SUBSET DOMAIN checkpoint.pendingRequests,
       badP \in SUBSET DOMAIN checkpoint.pendingPayments :
        /\ ~isRunning
        /\ starts < MaxStarts
        /\ starts' = starts + 1
        /\ LET v == recoverFromLastCheckpoint(
                        [heap |-> <<>>, requests |-> <<>>, log |-> <<>>, raised |-> FALSE],
                        checkpoint, readOk, intact, badR, badP)
           IN /\ heap' = v.S.heap
              /\ requests' = v.S.requests
              /\ isRunning' = (v.result # "raised")
              /\ ret' = [NoRet EXCEPT !.op = "recoverFromLastCheckpoint",
                                      !.result = v.result, !.log = v.S.log]
        /\ payments' = <<>>
        /\ failedPayments' = <<>>
        /\ inflight' = <<>>
        /\ contexts' = <<>>
        /\ generation' = <<>>
        /\ UNCHANGED <<now, checkpoint, savedStore>>

\* shutdown() on SIGINT or an uncaught exception; the process exits
Shutdown ==
    /\ isRunning
    /\ isRunning' = FALSE
    /\ ret' = [NoRet EXCEPT !.op = "shutdown"]
    /\ UNCHANGED <<now, heap, payments, failedPayments, requests, inflight,
                   starts, checkpoint, savedStore, contexts, generation>>

\* the checkpoint interval fires: recoverySystem.saveCheckpoint()
SaveCheckpoint ==
    \E kvOk \in BOOLEAN :
        /\ isRunning
        /\ checkpoint' = saveCheckpoint(heap, requests, checkpoint, kvOk)
        /\ savedStore' = IF kvOk THEN StoreView(heap, requests) ELSE savedStore
        /\ ret' = [NoRet EXCEPT !.op = "saveCheckpoint",
                                !.result = IF kvOk THEN "saved" ELSE "logged"]
        /\ UNCHANGED <<now, heap, payments, failedPayments, requests, inflight,
                       isRunning, starts, contexts, generation>>

\* a mention arrives at the started bot
BotHandleMention ==
    /\ isRunning
    /\ handleMention(MaxMentions)
    /\ UNCHANGED bvars

\* handlePaymentConfirmation: verifyPayment of the orderId of the request the
\* reply refers to
BotHandlePaymentConfirmation ==
    \E i \in DOMAIN requests, tx \in TxHashes \cup {NoTx} :
        /\ isRunning
        /\ LET o == heap[requests[i].payment].orderId
               r == [NoRet EXCEPT !.op = "verifyPayment", !.txHash = tx, !.orderId = o]
               v == verifyPayment(Ledger, requests, now, o, tx, r)
           IN /\ IF o \notin DOMAIN payments /\ o \in DOMAIN failedPayments
                 THEN failedPayments[o].attempts < MaxErrors
                 ELSE TRUE
              /\ Len(inflight) + Len(v.call) <= MaxConfirming
              /\ heap' = v.L.heap
              /\ payments' = v.L.payments
              /\ failedPayments' = v.L.failedPayments
              /\ inflight' = inflight \o v.call
              /\ contexts' = contexts \o
                    [k \in DOMAIN v.call |->
                        [handler |-> "confirmation", tweetId |-> requests[i].tweetId,
                         orderId |-> o]]
              /\ ret' = v.ret
        /\ UNCHANGED <<now, requests>>
        /\ UNCHANGED <<isRunning, starts, checkpoint, savedStore, generation>>

\* handlePaymentRecovery: retryFailedPayment of the orderId quoted in a
\* 'retry:' reply to the tweet t
BotHandlePaymentRecovery ==
    \E o \in OrderIds, t \in TweetIds :
        /\ isRunning
        /\ LET r == [NoRet EXCEPT !.op = "retryFailedPayment", !.orderId = o]
               v == retryFailedPayment(Ledger, requests, now, o, r)
           IN /\ Len(inflight) + Len(v.call) <= MaxConfirming
              /\ heap' = v.L.heap
              /\ payments' = v.L.payments
              /\ failedPayments' = v.L.failedPayments
              /\ inflight' = inflight \o v.call
              /\ contexts' = contexts \o
                    [k \in DOMAIN v.call |->
                        [handler |-> "recovery", tweetId |-> t, orderId |-> o]]
              /\ ret' = v.ret
        /\ UNCHANGED <<now, requests>>
        /\ UNCHANGED <<isRunning, starts, checkpoint, savedStore, generation>>

\* the chain request of a handler's verification settles: the rest of the
\* handler
BotChainResponds ==
    \E i \in DOMAIN inflight, rpcOk \in BOOLEAN, paid \in BOOLEAN :
        /\ isRunning
        /\ chainResponds(i, rpcOk, paid)
        /\ LET g == generateAndSendMusic(heap', requests, contexts[i],
                                         ret'.result = "true")
           IN /\ Len(generation) + Len(g) <= MaxGenerations
              /\ generation' = generation \o g
        /\ contexts' = RemoveAt(contexts, i)
        /\ UNCHANGED <<isRunning, starts, checkpoint, savedStore>>

\* generateAndSendMusic after its first reply: musicService.generateMusic is
\* called, unless the reply raised
MusicServiceGenerateMusic ==
    \E k \in DOMAIN generation, replyOk \in BOOLEAN :
        /\ isRunning
        /\ generation[k].stage = "replying"
        /\ generation' = [generation EXCEPT
                             ![k].stage = IF replyOk THEN "generating" ELSE "aborted",
                             ![k].status = IF replyOk
                                           THEN getPaymentStatus(Ledger, generation[k].orderId)
                                           ELSE "none"]
        /\ ret' = [NoRet EXCEPT !.op = "generateMusic"]
        /\ UNCHANGED <<now, heap, payments, failedPayments, requests, inflight>>
        /\ UNCHANGED <<isRunning, starts, checkpoint, savedStore, contexts>>

(***************************************************************************)
(* RateLimiter (utils/rateLimiter.ts)                                      *)
(***************************************************************************)
\* constructor(maxRequestsPerHour: number = 10)
defaultRequestsPerHour == 10
\* 60 * 60 * 1000
hour == 3600000

\* identities passed to checkLimit
RateUsers == {"u1", "u2"}

\* ceilings (positive request counts) the limiter is constructed with
Ceilings == (1..MaxCeiling) \cup {defaultRequestsPerHour}

\* the instants at which the limiter reads Date.now()
RateInstants == UNION {(k * hour)..(k * hour + k + 1) : k \in 0..MaxWindows}

VARIABLES
    maxRequestsPerHour,  \* this.maxRequestsPerHour
    limits,              \* this.limits: userId -> [count, resetTime]
    rnow,                \* Date.now() as the limiter reads it
    answers,             \* history: per userId, the results of the checkLimit
                         \* calls since its window was created
    uncleaned,           \* history: this.limits as the same checkLimit calls
                         \* would have left it had cleanup() never run
    rret                 \* the limiter call just made and its result

lvars == <<maxRequestsPerHour, limits, rnow, answers, uncleaned, rret>>

\* result: the value a checkLimit call returned; time: the value a
\* getTimeUntilReset call returned
NoCall == [op |-> "none", userId |-> "none", result |-> FALSE, time |-> 0]

\* checkLimit(userId) at time t: the new map and the value returned
checkLimit_offByOne(lim, max, t, userId) ==
    IF userId \notin DOMAIN lim \/ t > lim[userId].resetTime
    THEN [limits |-> Put(lim, userId, [count |-> 1, resetTime |-> t + hour]),
          result |-> TRUE, created |-> TRUE]
    ELSE IF lim[userId].count > max
    THEN [limits |-> lim, result |-> FALSE, created |-> FALSE]
    ELSE [limits |-> [lim EXCEPT ![userId].count = @ + 1],
          result |-> TRUE, created |-> FALSE]

checkLimit_countsDenied(lim, max, t, userId) ==
    IF userId \notin DOMAIN lim \/ t > lim[userId].resetTime
    THEN [limits |-> Put(lim, userId, [count |-> 1, resetTime |-> t + hour]),
          result |-> TRUE, created |-> TRUE]
    ELSE [limits |-> [lim EXCEPT ![userId].count = @ + 1],
          result |-> lim[userId].count < max, created |-> FALSE]

checkLimit(lim, max, t, userId) ==
    IF userId \notin DOMAIN lim
    THEN [limits |-> Put(lim, userId, [count |-> 1, resetTime |-> t + hour]),
          result |-> TRUE, created |-> TRUE]
    ELSE IF t > lim[userId].resetTime
    THEN [limits |-> Put(lim, userId, [count |-> 1, resetTime |-> t + hour]),
          result |-> TRUE, created |-> TRUE]
    ELSE IF lim[userId].count >= max
    THEN [limits |-> lim, result |-> FALSE, created |-> FALSE]
    ELSE [limits |-> [lim EXCEPT ![userId].count = @ + 1],
          result |-> TRUE, created |-> FALSE]

\* getTimeUntilReset(userId) at time t
getTimeUntilReset(lim, t, userId) ==
    IF userId \notin DOMAIN lim THEN 0
    ELSE IF lim[userId].resetTime - t > 0 THEN lim[userId].resetTime - t ELSE 0

\* cleanup() at time t: windows whose resetTime has passed are deleted
cleanup_removesActive(lim, t) ==
    [u \in {x \in DOMAIN lim : ~(t >= lim[x].resetTime)} |-> lim[u]]

cleanup(lim, t) ==
    [u \in {x \in DOMAIN lim : ~(t > lim[x].resetTime)} |-> lim[u]]

\* a limiter constructed with ceiling c
RInit(c) ==
    /\ maxRequestsPerHour = c
    /\ limits = <<>>
    /\ rnow = 0
    /\ answers = <<>>
    /\ uncleaned = <<>>
    /\ rret = NoCall

CheckLimit ==
    \E userId \in RateUsers :
        LET v == checkLimit(limits, maxRequestsPerHour, rnow, userId)
            a == IF v.created \/ userId \notin DOMAIN answers
                 THEN <<>> ELSE answers[userId]
        IN /\ Len(a) < maxRequestsPerHour + MaxDenied
           /\ limits' = v.limits
           /\ answers' = Put(answers, userId, Append(a, v.result))
           /\ uncleaned' = checkLimit(uncleaned, maxRequestsPerHour, rnow, userId).limits
           /\ rret' = [NoCall EXCEPT !.op = "checkLimit", !.userId = userId,
                                      !.result = v.result]
           /\ UNCHANGED <<maxRequestsPerHour, rnow>>

GetTimeUntilReset ==
    \E userId \in RateUsers :
        /\ rret' = [NoCall EXCEPT !.op = "getTimeUntilReset", !.userId = userId,
                                   !.time = getTimeUntilReset(limits, rnow, userId)]
        /\ UNCHANGED <<maxRequestsPerHour, limits, rnow, answers, uncleaned>>

Cleanup ==
    /\ limits' = cleanup(limits, rnow)
    /\ rret' = [NoCall EXCEPT !.op = "cleanup"]
    /\ UNCHANGED <<maxRequestsPerHour, rnow, answers, uncleaned>>

\* time passes for the limiter
RateTick ==
    \E t \in RateInstants :
        /\ t > rnow
        /\ rnow' = t
        /\ rret' = NoCall
        /\ UNCHANGED <<maxRequestsPerHour, limits, answers, uncleaned>>

(***************************************************************************)
(* SchedulerService (services/scheduler.ts)                                *)
(***************************************************************************)
JobIds == {"j1", "j2"}

VARIABLES
    jobObjs,       \* the Job objects ever created: [id, isRunning, lastRun]
    jobs,          \* this.jobs in insertion order: entries [id, obj]
    intervals,     \* this.intervals: job id -> timer
    timers,        \* the setInterval timers ever created: [obj, live];
                   \* obj is the Job object the callback closed over
    schedRunning,  \* this.isRunning
    invocations,   \* job.task() calls awaited: [obj, via]
    runs,          \* number of invocations started
    sclock,        \* new Date() as the scheduler reads it: a logical clock
    runAll,        \* the runAllJobs call in progress: [active, cursor]
    sret           \* the scheduler step just taken

svars == <<jobObjs, jobs, intervals, timers, schedRunning, invocations, runs,
           sclock, runAll, sret>>

NoStep == [op |-> "none", id |-> "none", obj |-> 0, result |-> "none", emits |-> <<>>]

\* Map.get on this.jobs: the Job object, 0 for undefined
mapGet(m, id) ==
    LET hits == {i \in DOMAIN m : m[i].id = id}
    IN IF hits = {} THEN 0 ELSE m[CHOOSE i \in hits : TRUE].obj

\* Map.set on this.jobs: an existing key keeps its position
mapSet(m, id, obj) ==
    IF mapGet(m, id) = 0 THEN Append(m, [id |-> id, obj |-> obj])
    ELSE [i \in DOMAIN m |-> IF m[i].id = id THEN [id |-> id, obj |-> obj] ELSE m[i]]

\* position of a key in this.jobs, 0 when absent
mapPos(m, id) ==
    LET hits == {i \in DOMAIN m : m[i].id = id}
    IN IF hits = {} THEN 0 ELSE CHOOSE i \in hits : TRUE

\* Map.delete on this.jobs
mapDelete(m, id) == SelectSeq(m, LAMBDA x : x.id # id)

\* the body shared by the interval callback and runJobNow, up to the await
invoke(objs, obj) ==
    [objs |-> [objs EXCEPT ![obj].isRunning = TRUE], result |-> "started",
     emits |-> <<"jobStart">>, started |-> <<obj>>]

\* the interval callback: a tick of a timer that closed over obj
tick(objs, obj) ==
    IF objs[obj].isRunning
    THEN [objs |-> objs, result |-> "skipped", emits |-> <<>>, started |-> <<>>]
    ELSE invoke(objs, obj)

\* runJobNow(jobId) up to the await
runJobNow_noBusyCheck(objs, jbs, id) ==
    IF mapGet(jbs, id) = 0
    THEN [objs |-> objs, result |-> "raised", emits |-> <<>>, started |-> <<>>]
    ELSE invoke(objs, mapGet(jbs, id))

runJobNow(objs, jbs, id) ==
    IF mapGet(jbs, id) = 0
    THEN [objs |-> objs, result |-> "raised", emits |-> <<>>, started |-> <<>>]
    ELSE IF objs[mapGet(jbs, id)].isRunning
    THEN [objs |-> objs, result |-> "raised", emits |-> <<>>, started |-> <<>>]
    ELSE invoke(objs, mapGet(jbs, id))

\* the body shared by the interval callback and runJobNow after the await:
\* ok is whether job.task() resolved, t the instant new Date() gives
settle_flagLeftOnError(objs, obj, ok, t) ==
    IF ok
    THEN [objs |-> [objs EXCEPT ![obj].lastRun = t, ![obj].isRunning = FALSE],
          emits |-> <<"jobComplete">>]
    ELSE [objs |-> objs, emits |-> <<"jobError">>]

settle(objs, obj, ok, t) ==
    IF ok
    THEN [objs |-> [objs EXCEPT ![obj].lastRun = t, ![obj].isRunning = FALSE],
          emits |-> <<"jobComplete">>]
    ELSE [objs |-> [objs EXCEPT ![obj].isRunning = FALSE],
          emits |-> <<"jobError">>]

\* scheduleJob(jobId): a new timer closing over the current Job object
scheduleJob(S, id) ==
    IF mapGet(S.jobs, id) = 0 THEN S
    ELSE [S EXCEPT !.timers = Append(@, [obj |-> mapGet(S.jobs, id), live |-> TRUE]),
                   !.intervals = Put(@, id, Len(S.timers) + 1)]

RECURSIVE scheduleAll(_, _)
scheduleAll(S, entries) ==
    IF entries = <<>> THEN S
    ELSE scheduleAll(scheduleJob(S, Head(entries).id), Tail(entries))

\* pauseJob(jobId): clearInterval of the tracked timer
pauseJob(S, id) ==
    IF id \in DOMAIN S.intervals
    THEN [S EXCEPT !.timers[S.intervals[id]].live = FALSE,
                   !.intervals = Del(@, id)]
    ELSE S

Sched == [jobs |-> jobs, intervals |-> intervals, timers |-> timers]

SInit ==
    /\ jobObjs = <<>>
    /\ jobs = <<>>
    /\ intervals = <<>>
    /\ timers = <<>>
    /\ schedRunning = FALSE
    /\ invocations = <<>>
    /\ runs = 0
    /\ sclock = 0
    /\ runAll = [active |-> FALSE, cursor |-> 0]
    /\ sret = NoStep

RegisterJob ==
    \E id \in JobIds :
        /\ Len(jobObjs) < MaxRegistrations
        /\ jobObjs' = Append(jobObjs, [id |-> id, isRunning |-> FALSE, lastRun |-> 0])
        /\ jobs' = mapSet(jobs, id, Len(jobObjs) + 1)
        /\ sret' = [NoStep EXCEPT !.op = "registerJob", !.id = id, !.obj = Len(jobObjs) + 1]
        /\ UNCHANGED <<intervals, timers, schedRunning, invocations, runs, sclock, runAll>>

SchedStart ==
    /\ Len(timers) + Len(jobs) <= MaxTimers
    /\ LET S == IF schedRunning THEN Sched ELSE scheduleAll(Sched, jobs)
       IN /\ schedRunning' = TRUE
          /\ timers' = S.timers
          /\ intervals' = S.intervals
    /\ sret' = [NoStep EXCEPT !.op = "start"]
    /\ UNCHANGED <<jobObjs, jobs, invocations, runs, sclock, runAll>>

SchedStop ==
    /\ schedRunning' = FALSE
    /\ timers' = [k \in DOMAIN timers |->
                    IF \E id \in DOMAIN intervals : intervals[id] = k
                    THEN [timers[k] EXCEPT !.live = FALSE] ELSE timers[k]]
    /\ intervals' = <<>>
    /\ sret' = [NoStep EXCEPT !.op = "stop"]
    /\ UNCHANGED <<jobObjs, jobs, invocations, runs, sclock, runAll>>

PauseJob ==
    \E id \in JobIds :
        LET S == pauseJob(Sched, id)
        IN /\ timers' = S.timers
           /\ intervals' = S.intervals
           /\ sret' = [NoStep EXCEPT !.op = "pauseJob", !.id = id]
           /\ UNCHANGED <<jobObjs, jobs, schedRunning, invocations, runs, sclock, runAll>>

ResumeJob ==
    \E id \in JobIds :
        /\ Len(timers) < MaxTimers
        /\ LET S == IF mapGet(jobs, id) # 0 /\ id \notin DOMAIN intervals
                    THEN scheduleJob(Sched, id) ELSE Sched
           IN /\ timers' = S.timers
              /\ intervals' = S.intervals
        /\ sret' = [NoStep EXCEPT !.op = "resumeJob", !.id = id]
        /\ UNCHANGED <<jobObjs, jobs, schedRunning, invocations, runs, sclock, runAll>>

RemoveJob ==
    \E id \in JobIds :
        LET S == pauseJob(Sched, id)
            k == mapPos(jobs, id)
        IN /\ timers' = S.timers
           /\ intervals' = S.intervals
           /\ jobs' = mapDelete(jobs, id)
           /\ runAll' = IF runAll.active /\ k # 0 /\ k <= runAll.cursor
                         THEN [runAll EXCEPT !.cursor = @ - 1] ELSE runAll
           /\ sret' = [NoStep EXCEPT !.op = "removeJob", !.id = id]
           /\ UNCHANGED <<jobObjs, schedRunning, invocations, runs, sclock>>

\* a live timer fires
TimerFires ==
    \E k \in DOMAIN timers :
        /\ timers[k].live
        /\ LET v == tick(jobObjs, timers[k].obj)
           IN /\ runs + Len(v.started) <= MaxRuns
              /\ jobObjs' = v.objs
              /\ invocations' = invocations \o
                                  [i \in DOMAIN v.started |-> [obj |-> v.started[i], via |-> "tick"]]
              /\ runs' = runs + Len(v.started)
              /\ sret' = [op |-> "tick", id |-> jobObjs[timers[k].obj].id,
                          obj |-> timers[k].obj, result |-> v.result, emits |-> v.emits]
        /\ UNCHANGED <<jobs, intervals, timers, schedRunning, sclock, runAll>>

RunJobNow ==
    \E id \in JobIds :
        LET v == runJobNow(jobObjs, jobs, id)
        IN /\ runs + Len(v.started) <= MaxRuns
           /\ jobObjs' = v.objs
           /\ invocations' = invocations \o
                               [i \in DOMAIN v.started |-> [obj |-> v.started[i], via |-> "now"]]
           /\ runs' = runs + Len(v.started)
           /\ sret' = [op |-> "runJobNow", id |-> id, obj |-> mapGet(jobs, id),
                       result |-> v.result, emits |-> v.emits]
           /\ UNCHANGED <<jobs, intervals, timers, schedRunning, sclock, runAll>>

\* runAllJobs(): runJobNow of the first entry of this.jobs
RunAllJobs ==
    /\ ~runAll.active
    /\ IF jobs = <<>>
       THEN /\ sret' = [NoStep EXCEPT !.op = "runAllJobs", !.result = "done"]
            /\ UNCHANGED <<jobObjs, invocations, runs, runAll>>
       ELSE LET v == runJobNow(jobObjs, jobs, jobs[1].id)
            IN /\ runs + Len(v.started) <= MaxRuns
               /\ jobObjs' = v.objs
               /\ invocations' = invocations \o
                                   [i \in DOMAIN v.started |-> [obj |-> v.started[i], via |-> "all"]]
               /\ runs' = runs + Len(v.started)
               /\ runAll' = [active |-> v.result = "started",
                             cursor |-> IF v.result = "started" THEN 1 ELSE 0]
               /\ sret' = [op |-> "runAllJobs", id |-> jobs[1].id, obj |-> jobs[1].obj,
                           result |-> v.result, emits |-> v.emits]
    /\ UNCHANGED <<jobs, intervals, timers, schedRunning, sclock>>

\* an awaited job.task() settles: the rest of the callback or of runJobNow,
\* and for runAllJobs the next iteration of its loop
TaskEnds ==
    \E i \in DOMAIN invocations, ok \in BOOLEAN :
        LET inv   == invocations[i]
            done  == settle(jobObjs, inv.obj, ok, sclock + 1)
            objs1 == done.objs
            rest  == RemoveAt(invocations, i)
            e1    == done.emits
            more  == inv.via = "all" /\ ok /\ runAll.cursor < Len(jobs)
            v     == IF more
                     THEN runJobNow(objs1, jobs, jobs[runAll.cursor + 1].id)
                     ELSE [objs |-> objs1, result |-> "none", emits |-> <<>>, started |-> <<>>]
        IN /\ runs + Len(v.started) <= MaxRuns
           /\ jobObjs' = v.objs
           /\ invocations' = rest \o
                               [j \in DOMAIN v.started |-> [obj |-> v.started[j], via |-> "all"]]
           /\ runs' = runs + Len(v.started)
           /\ sclock' = sclock + 1
           /\ runAll' = IF inv.via # "all" THEN runAll
                         ELSE IF v.result = "started"
                         THEN [runAll EXCEPT !.cursor = @ + 1]
                         ELSE [active |-> FALSE, cursor |-> 0]
           /\ sret' = [op |-> "taskEnds", id |-> jobObjs[inv.obj].id, obj |-> inv.obj,
                       result |-> IF ok THEN "completed" ELSE "failed",
                       emits |-> e1 \o v.emits]
           /\ UNCHANGED <<jobs, intervals, timers, schedRunning>>

(***************************************************************************)
(* RetryManager (utils/retry.ts)                                           *)
(***************************************************************************)
\* options.delay, ms
RetryDelays == {1000, 2000}

\* values an operation may throw: Error objects and a value that is not one
Thrown == { [kind |-> "Error", message |-> "e1"],
            [kind |-> "Error", message |-> "e2"],
            [kind |-> "string", message |-> "s1"] }

\* the value an operation resolves with
Resolved == [kind |-> "value", message |-> "v1"]
\* a result the condition of retryWithCondition rejects
Unmet == [kind |-> "value", message |-> "v0"]
\* condition(result)
condition(result) == result = Resolved

NoOutcome == [kind |-> "none", message |-> "none"]

VARIABLES
    options,    \* the RetryOptions of the call: [maxAttempts, delay, backoff, onRetry]
    tpc,        \* where the retry call is: idle, calling, sleeping, returned, raised
    attempt,    \* the loop variable
    calls,      \* number of times operation() has been invoked
    thrown,     \* history: the value each failed attempt threw
    observed,   \* the onRetry calls made: [error, attempt]
    slept,      \* the delays waited, ms
    outcome,    \* the value returned or raised by the retry call
    variant,    \* the method called: retry or retryWithCondition
    results     \* history: the value each resolved attempt yielded

tvars == <<options, tpc, attempt, calls, thrown, observed, slept, outcome, variant,
           results>>

\* err instanceof Error ? err : new Error(String(err))
toError(err) ==
    IF err.kind = "Error" THEN err ELSE [kind |-> "Error", message |-> err.message]

\* Math.pow(2, n)
RECURSIVE pow2(_)
pow2(n) == IF n = 0 THEN 1 ELSE 2 * pow2(n - 1)

delayTime_doubled(opts, a) == IF opts.backoff THEN opts.delay * pow2(a) ELSE opts.delay

\* options.backoff ? options.delay * Math.pow(2, attempt - 1) : options.delay
delayTime(opts, a) == IF opts.backoff THEN opts.delay * pow2(a - 1) ELSE opts.delay

\* the catch block of retry for the value err thrown by attempt a
catch_observesFinal(opts, a, err) ==
    LET error == toError(err)
        seen  == IF opts.onRetry THEN <<[error |-> error, attempt |-> a]>> ELSE <<>>
    IN IF a = opts.maxAttempts
       THEN [pc |-> "raised", outcome |-> error, observed |-> seen, slept |-> <<>>]
       ELSE [pc |-> "sleeping", outcome |-> NoOutcome, observed |-> seen,
             slept |-> <<delayTime(opts, a)>>]

catch(opts, a, err) ==
    LET error == toError(err)
    IN IF a = opts.maxAttempts
       THEN [pc |-> "raised", outcome |-> error, observed |-> <<>>, slept |-> <<>>]
       ELSE [pc |-> "sleeping", outcome |-> NoOutcome,
             observed |-> IF opts.onRetry THEN <<[error |-> error, attempt |-> a]>>
                          ELSE <<>>,
             slept |-> <<delayTime(opts, a)>>]

\* retryWithCondition: attempt a resolved with a result the condition
\* rejects. On the last attempt the error thrown inside the try block is
\* caught by the catch block of the same pass
unmet_returnsLast(opts, a, result) ==
    IF a = opts.maxAttempts
    THEN [pc |-> "returned", outcome |-> result, observed |-> <<>>, slept |-> <<>>,
          thrown |-> <<>>]
    ELSE [pc |-> "sleeping", outcome |-> NoOutcome,
          observed |-> IF opts.onRetry
                       THEN <<[error |-> [kind |-> "Error", message |-> "Condition not met"],
                               attempt |-> a]>>
                       ELSE <<>>,
          slept |-> <<delayTime(opts, a)>>, thrown |-> <<>>]

unmet(opts, a, result) ==
    IF a = opts.maxAttempts
    THEN LET err == [kind |-> "Error", message |-> "Condition not met after all attempts"]
             c   == catch(opts, a, err)
         IN [pc |-> c.pc, outcome |-> c.outcome, observed |-> c.observed,
             slept |-> c.slept, thrown |-> <<err>>]
    ELSE [pc |-> "sleeping", outcome |-> NoOutcome,
          observed |-> IF opts.onRetry
                       THEN <<[error |-> [kind |-> "Error", message |-> "Condition not met"],
                               attempt |-> a]>>
                       ELSE <<>>,
          slept |-> <<delayTime(opts, a)>>, thrown |-> <<>>]

TInit ==
    /\ variant = "retry"
    /\ results = <<>>
    /\ options = [maxAttempts |-> 3, delay |-> 1000, backoff |-> TRUE, onRetry |-> FALSE]
    /\ tpc = "idle"
    /\ attempt = 0
    /\ calls = 0
    /\ thrown = <<>>
    /\ observed = <<>>
    /\ slept = <<>>
    /\ outcome = NoOutcome

\* retry(operation, options) or retryWithCondition(operation, condition,
\* options) is called: the first pass of the loop up to await operation()
Retry ==
    \E n \in 0..MaxRetryAttempts, d \in RetryDelays, b \in BOOLEAN, o \in BOOLEAN,
       v \in {"retry", "retryWithCondition"} :
        /\ tpc = "idle"
        /\ variant' = v
        /\ options' = [maxAttempts |-> n, delay |-> d, backoff |-> b, onRetry |-> o]
        /\ attempt' = 1
        /\ IF 1 <= n
           THEN /\ tpc' = "calling"
                /\ calls' = 1
                /\ outcome' = NoOutcome
           ELSE /\ tpc' = "raised"
                /\ calls' = 0
                /\ outcome' = [kind |-> "Error", message |-> "No attempts made"]
        /\ UNCHANGED <<thrown, observed, slept, results>>

\* operation() resolves with result
OperationResolves ==
    \E result \in {Resolved, Unmet} :
        /\ tpc = "calling"
        /\ results' = Append(results, result)
        /\ IF variant = "retry" \/ condition(result)
           THEN /\ tpc' = "returned"
                /\ outcome' = result
                /\ UNCHANGED <<thrown, observed, slept>>
           ELSE LET u == unmet(options, attempt, result)
                IN /\ tpc' = u.pc
                   /\ outcome' = u.outcome
                   /\ observed' = observed \o u.observed
                   /\ slept' = slept \o u.slept
                   /\ thrown' = thrown \o u.thrown
        /\ UNCHANGED <<options, attempt, calls, variant>>

\* operation() rejects with err
OperationRejects ==
    \E err \in Thrown :
        /\ tpc = "calling"
        /\ LET c == catch(options, attempt, err)
           IN /\ tpc' = c.pc
              /\ outcome' = c.outcome
              /\ observed' = observed \o c.observed
              /\ slept' = slept \o c.slept
        /\ thrown' = Append(thrown, err)
        /\ UNCHANGED <<options, attempt, calls, variant, results>>

\* the delay timer fires: attempt++ and the next pass up to await operation()
RetryWakes ==
    /\ tpc = "sleeping"
    /\ attempt' = attempt + 1
    /\ IF attempt + 1 <= options.maxAttempts
       THEN /\ tpc' = "calling"
            /\ calls' = calls + 1
            /\ outcome' = NoOutcome
       ELSE /\ tpc' = "raised"
            /\ calls' = calls
            /\ outcome' = toError(thrown[Len(thrown)])
    /\ UNCHANGED <<options, thrown, observed, slept, variant, results>>

(***************************************************************************)
(* MusicProviderManager (services/music/providerManager.ts)                *)
(***************************************************************************)
\* the providers initializeProviders knows, in the order it registers them
ProviderNames == <<"mubert", "suno", "beatoven">>

\* the non-empty selections of providers whose API key is set, in
\* registration order
Configurations ==
    { SelectSeq(ProviderNames, LAMBDA n : n \in c) :
        c \in (SUBSET {ProviderNames[i] : i \in DOMAIN ProviderNames}) \ {{}} }

VARIABLES
    providers,        \* this.providers: the configured names in insertion order
    currentProvider,  \* this.currentProvider
    gpc,              \* the generateMusic call: idle, primary, fallback, returned, raised
    atCall,           \* history: this.currentProvider when generateMusic was called
    triedProviders,   \* the triedProviders array of tryFallbackProviders
    pending,          \* position in providers of the provider being awaited
    invoked,          \* history: the providers invoked by the call, in order
    failed,           \* history: the providers whose generateMusic rejected
    goutcome          \* what the call returned (a provider's result) or raised

mvars == <<providers, currentProvider, gpc, atCall, triedProviders, pending,
           invoked, failed, goutcome>>

\* position of a name in this.providers, 0 when the Map does not hold it
providerPos(provs, name) ==
    LET hits == {i \in DOMAIN provs : provs[i] = name}
    IN IF hits = {} THEN 0 ELSE CHOOSE i \in hits : TRUE

\* triedProviders.includes(name)
includes(arr, name) == \E i \in DOMAIN arr : arr[i] = name

\* the for loop of tryFallbackProviders, resumed after position from: the
\* position of the next provider it invokes, 0 when the loop ends
nextFallback(provs, tried, from) ==
    LET rest == {i \in DOMAIN provs : i > from /\ ~includes(tried, provs[i])}
    IN IF rest = {} THEN 0 ELSE CHOOSE i \in rest : \A j \in rest : i <= j

\* a manager built with the given API keys and DEFAULT_MUSIC_PROVIDER
MInit(provs, default) ==
    /\ providers = provs
    /\ currentProvider = default
    /\ gpc = "idle"
    /\ atCall = "none"
    /\ triedProviders = <<>>
    /\ pending = 0
    /\ invoked = <<>>
    /\ failed = {}
    /\ goutcome = "none"

\* generateMusic(options) up to await provider.generateMusic(options)
GenerateMusic ==
    /\ gpc = "idle"
    /\ atCall' = currentProvider
    /\ IF providerPos(providers, currentProvider) = 0
       THEN /\ gpc' = "raised"
            /\ goutcome' = "Provider not found"
            /\ UNCHANGED <<pending, invoked>>
       ELSE /\ gpc' = "primary"
            /\ pending' = providerPos(providers, currentProvider)
            /\ invoked' = <<currentProvider>>
            /\ UNCHANGED goutcome
    /\ UNCHANGED <<providers, currentProvider, triedProviders, failed>>

\* the awaited provider.generateMusic resolves
ProviderResolves ==
    /\ gpc \in {"primary", "fallback"}
    /\ gpc' = "returned"
    /\ goutcome' = providers[pending]
    /\ UNCHANGED <<providers, currentProvider, atCall, triedProviders, pending,
                   invoked, failed>>

\* the awaited provider.generateMusic rejects: the catch block, and the
\* fallback loop up to its next await
ProviderRejects ==
    /\ gpc \in {"primary", "fallback"}
    /\ LET tried == IF gpc = "primary" THEN <<currentProvider>>
                    ELSE Append(triedProviders, providers[pending])
           from  == IF gpc = "primary" THEN 0 ELSE pending
           next  == nextFallback(providers, tried, from)
       IN /\ triedProviders' = tried
          /\ failed' = failed \cup {providers[pending]}
          /\ IF next = 0
             THEN /\ gpc' = "raised"
                  /\ goutcome' = "All providers failed"
                  /\ UNCHANGED <<pending, invoked>>
             ELSE /\ gpc' = "fallback"
                  /\ pending' = next
                  /\ invoked' = Append(invoked, providers[next])
                  /\ UNCHANGED goutcome
    /\ UNCHANGED <<providers, currentProvider, atCall>>

\* setProvider(providerName); an unavailable name raises and changes nothing
SetProvider ==
    \E name \in {ProviderNames[i] : i \in DOMAIN ProviderNames} :
        /\ currentProvider' = IF providerPos(providers, name) # 0 THEN name
                              ELSE currentProvider
        /\ UNCHANGED <<providers, gpc, atCall, triedProviders, pending, invoked,
                       failed, goutcome>>

(***************************************************************************)
(* MusiXBot.handleMention behind TwitterService.processMention: the        *)
(* mention pipeline (rate-limit gates, bot queue, retry wrapper)           *)
(***************************************************************************)
\* what a '/music' mention carries after the command: a prompt or nothing
MentionTexts == {"prompt", "noprompt"}

\* the options handleMention passes to retryManager.retry
mentionRetry == [maxAttempts |-> 3, delay |-> 2000, backoff |-> TRUE, onRetry |-> TRUE]

VARIABLES
    gateLimits,   \* TwitterService.rateLimiter.limits
    botLimits,    \* MusiXBot.rateLimiter.limits
    botQueue,     \* MusiXBot.queueManager.queue: [mention, retries], head first
    head,         \* where the task at the head of botQueue is:
                  \* [pc, attempt, site]; pc is idle (no processQueue loop),
                  \* replying, retrySleep, notifying or queueSleep
    stored,       \* keys of storageService.requests written by the pipeline
    mentions,     \* history, one record per mention delivered:
                  \* [author, text, gate, enqueued, denials, units, created,
                  \*  runs]; units counts the checkLimit calls of the bot's
                  \*  limiter answered true for the mention, runs the times
                  \*  the operation was started for it
    oret          \* the pipeline step just taken

ovars == <<gateLimits, botLimits, botQueue, head, stored, mentions, oret>>

Idle == [pc |-> "idle", attempt |-> 0, site |-> "none"]

\* the operation handleMention hands to retry, from checkLimit to the reply
\* it awaits, for mention id as attempt a. The window clock stands still: a
\* mention is handled within seconds
operation(O, id, a) ==
    LET m == O.mentions[id]
        c == checkLimit(O.botLimits, defaultRequestsPerHour, 0, m.author)
        b == [O EXCEPT !.botLimits = c.limits, !.mentions[id].runs = @ + 1]
    IN IF ~c.result
       THEN [b EXCEPT !.mentions[id].denials = @ + 1,
                      !.head = [pc |-> "replying", attempt |-> a, site |-> "denied"]]
       ELSE IF m.text = "noprompt"
       THEN [b EXCEPT !.mentions[id].units = @ + 1,
                      !.head = [pc |-> "replying", attempt |-> a, site |-> "noprompt"]]
       ELSE IF id \in O.stored
       THEN [b EXCEPT !.mentions[id].units = @ + 1,
                      !.head = [pc |-> "replying", attempt |-> a, site |-> "existing"]]
       ELSE [b EXCEPT !.mentions[id].units = @ + 1,
                      !.mentions[id].created = @ + 1,
                      !.stored = @ \cup {id},
                      !.head = [pc |-> "replying", attempt |-> a, site |-> "instructions"]]

\* the while loop of processQueue re-evaluates its condition: the task now
\* at the head is executed, or the loop ends
nextTask(O) ==
    IF O.botQueue = <<>> THEN [O EXCEPT !.head = Idle]
    ELSE operation(O, O.botQueue[1].mention, 1)

\* addTask(mentionId, task): push, and processQueue unless one is running
addTask(O, id) ==
    LET pushed == [O EXCEPT !.botQueue = Append(@, [mention |-> id, retries |-> 0]),
                            !.mentions[id].enqueued = TRUE]
    IN IF O.head.pc = "idle" THEN nextTask(pushed) ELSE pushed

\* TwitterService.processMention for a '/music' mention: the gate, then
\* handlers.onMusicRequest, which is MusiXBot.handleMention
processMention(O, author, text) ==
    LET id == Len(O.mentions) + 1
        g  == checkLimit(O.gateLimits, defaultRequestsPerHour, 0, author)
        m  == [author |-> author, text |-> text,
               gate |-> IF g.result THEN "allowed" ELSE "denied",
               enqueued |-> FALSE, denials |-> IF g.result THEN 0 ELSE 1,
               units |-> 0, created |-> 0, runs |-> 0]
        seen == [O EXCEPT !.gateLimits = g.limits, !.mentions = Append(@, m)]
    IN IF g.result THEN addTask(seen, id) ELSE seen

\* the catch block of processQueue for the task at the head
queueCatch(O) ==
    IF mayRetry(O.botQueue[1].retries)
    THEN [O EXCEPT !.botQueue[1].retries = @ + 1,
                   !.head = [pc |-> "queueSleep", attempt |-> 0, site |-> "none"]]
    ELSE nextTask([O EXCEPT !.botQueue = shift(@)])

Pipeline == [gateLimits |-> gateLimits, botLimits |-> botLimits, botQueue |-> botQueue,
             head |-> head, stored |-> stored, mentions |-> mentions]

Becomes(O) ==
    /\ gateLimits' = O.gateLimits
    /\ botLimits' = O.botLimits
    /\ botQueue' = O.botQueue
    /\ head' = O.head
    /\ stored' = O.stored
    /\ mentions' = O.mentions

OInit ==
    /\ gateLimits = <<>>
    /\ botLimits = <<>>
    /\ botQueue = <<>>
    /\ head = Idle
    /\ stored = {}
    /\ mentions = <<>>
    /\ oret = "none"

\* a '/music' mention is observed
MentionArrives ==
    \E author \in RateUsers, text \in MentionTexts :
        /\ Len(mentions) < MaxArrivals
        /\ Becomes(processMention(Pipeline, author, text))
        /\ oret' = "processMention"

\* the reply the operation awaits is sent: retry returns, the task resolves
\* and is shifted off the queue
ReplySent ==
    /\ head.pc = "replying"
    /\ Becomes(nextTask([Pipeline EXCEPT !.botQueue = shift(@)]))
    /\ oret' = "replySent"

\* the reply the operation awaits raises: the catch block of retry
ReplyRaises ==
    /\ head.pc = "replying"
    /\ LET c == catch(mentionRetry, head.attempt, [kind |-> "Error", message |-> "e1"])
       IN Becomes([Pipeline EXCEPT !.head.pc = IF c.pc = "raised" THEN "notifying"
                                                ELSE "retrySleep"])
    /\ oret' = "replyRaises"

\* the delay of retry has passed: the next attempt
MentionRetryWakes ==
    /\ head.pc = "retrySleep"
    /\ Becomes(operation(Pipeline, botQueue[1].mention, head.attempt + 1))
    /\ oret' = "retryWakes"

\* the error notification of handleMention's catch block settles either way
\* and the error is thrown to the queue
NotificationSettles ==
    /\ head.pc = "notifying"
    /\ Becomes(queueCatch(Pipeline))
    /\ oret' = "taskRejects"

\* the retryDelay of the queue has passed
QueueWakes ==
    /\ head.pc = "queueSleep"
    /\ Becomes(nextTask(Pipeline))
    /\ oret' = "queueWakes"

(***************************************************************************)
(* WebhookService (services/webhook.ts)                                    *)
(***************************************************************************)
VARIABLES
    hooks,     \* the handlePaymentConfirmed calls awaiting the calls of
               \* inflight, in the same order: [key]
    emitted    \* history: the events WebhookService has emitted:
               \* [event, key, verified, status]; verified is what the
               \* verifyPayment call of the webhook returned, status the
               \* ledger status of the key when the event was emitted

wvars == <<hooks, emitted>>

\* an orderId field of a webhook payload that holds the tweet id t: a string
\* that no order of the ledger is keyed by
TweetKey(t) == <<-1, <<t>>>>

\* the orderId fields a 'payment.confirmed' payload may carry
WebhookKeys == OrderIds \cup {TweetKey(t) : t \in TweetIds}

\* storageService.getRequest(orderId): the store is keyed by tweet id
requestForKey(reqs, key) ==
    IF key[1] = -1 THEN getRequest(reqs, key[2][1]) ELSE 0

\* handlePaymentConfirmed after its verifyPayment call has returned verified,
\* and the rest of handleWebhook: the events emitted
handlePaymentConfirmed(L, reqs, key, verified) ==
    IF requestForKey(reqs, key) = 0
    THEN <<[event |-> "webhookError", key |-> key, verified |-> verified,
            status |-> getPaymentStatus(L, key)]>>
    ELSE <<[event |-> "paymentConfirmed", key |-> key, verified |-> verified,
            status |-> getPaymentStatus(L, key)],
           [event |-> "webhookProcessed", key |-> key, verified |-> verified,
            status |-> getPaymentStatus(L, key)]>>

WInit ==
    /\ hooks = <<>>
    /\ emitted = <<>>

\* handleWebhook('payment.confirmed', payload): up to the chain request of
\* verifyPayment, or to the end when verifyPayment returns without one
HandleWebhook ==
    \E key \in WebhookKeys, tx \in TxHashes \cup {NoTx} :
        /\ Len(hooks) + Len(emitted) < MaxWebhooks
        /\ IF key \notin DOMAIN payments /\ key \in DOMAIN failedPayments
           THEN failedPayments[key].attempts < MaxErrors
           ELSE TRUE
        /\ LET r == [NoRet EXCEPT !.op = "verifyPayment", !.txHash = tx, !.orderId = key]
               v == verifyPayment(Ledger, requests, now, key, tx, r)
           IN /\ Len(inflight) + Len(v.call) <= MaxInflight
              /\ heap' = v.L.heap
              /\ payments' = v.L.payments
              /\ failedPayments' = v.L.failedPayments
              /\ inflight' = inflight \o v.call
              /\ hooks' = hooks \o [k \in DOMAIN v.call |-> [key |-> key]]
              /\ emitted' = IF v.call = <<>>
                            THEN emitted \o handlePaymentConfirmed(v.L, requests, key,
                                                                   v.ret.result = "true")
                            ELSE emitted
              /\ ret' = v.ret
        /\ UNCHANGED <<now, requests>>

\* the chain request of a webhook's verification settles: the rest of
\* handlePaymentConfirmed and of handleWebhook
WebhookChainResponds ==
    \E i \in DOMAIN inflight, rpcOk \in BOOLEAN, paid \in BOOLEAN :
        /\ chainResponds(i, rpcOk, paid)
        /\ emitted' = emitted \o
              handlePaymentConfirmed(
                  [heap |-> heap', payments |-> payments',
                   failedPayments |-> failedPayments'],
                  requests, hooks[i].key, ret'.result = "true")
        /\ hooks' = RemoveAt(hooks, i)

(***************************************************************************)
(* Specifications                                                          *)
(***************************************************************************)
vars == <<hooks, emitted,
          gateLimits, botLimits, botQueue, head, stored, mentions, oret,
          providers, currentProvider, gpc, atCall, triedProviders, pending,
          invoked, failed, goutcome,
          options, tpc, attempt, calls, thrown, observed, slept, outcome,
          variant, results,
          jobObjs, jobs, intervals, timers, schedRunning, invocations, runs,
          sclock, runAll, sret,
          maxRequestsPerHour, limits, rnow, answers, uncleaned, rret,
          isRunning, starts, checkpoint, savedStore, contexts, generation,
          queue, tasks, processing, loops, log, fate,
          now, heap, payments, failedPayments, requests, inflight, ret>>

Init == QInit /\ PInit /\ BInit /\ RInit(defaultRequestsPerHour) /\ SInit
        /\ TInit /\ MInit(<<"mubert", "suno">>, "mubert") /\ OInit /\ WInit

\* the state of the components a QueueManager step leaves alone
notQueue == <<pvars, bvars, lvars, svars, tvars, mvars, ovars, wvars>>
\* the state of the components a PaymentService step leaves alone
notPayment == <<qvars, bvars, lvars, svars, tvars, mvars, ovars, wvars>>
\* the state of the components a bot step leaves alone
notBot == <<qvars, lvars, svars, tvars, mvars, ovars, wvars>>
\* the state of the components a RateLimiter step leaves alone
notRate == <<qvars, pvars, bvars, svars, tvars, mvars, ovars, wvars>>
\* the state of the components a SchedulerService step leaves alone
notSched == <<qvars, pvars, bvars, lvars, tvars, mvars, ovars, wvars>>
\* the state of the components a MusicProviderManager step leaves alone
notProvider == <<qvars, pvars, bvars, lvars, svars, tvars, ovars, wvars>>
\* the state of the components a RetryManager step leaves alone
notRetry == <<qvars, pvars, bvars, lvars, svars, mvars, ovars, wvars>>

QueueNext ==
    \/ AddTask /\ UNCHANGED notQueue
    \/ TaskSucceeds /\ UNCHANGED notQueue
    \/ TaskFails /\ UNCHANGED notQueue
    \/ WakeUp /\ UNCHANGED notQueue

QueueSpec == Init /\ [][QueueNext]_vars

\* every task operation terminates and the retry timer fires
QueueLiveSpec ==
    /\ QueueSpec
    /\ WF_vars((TaskSucceeds \/ TaskFails) /\ UNCHANGED notQueue)
    /\ WF_vars(WakeUp /\ UNCHANGED notQueue)

PaymentNext ==
    \/ HandleMention /\ UNCHANGED notPayment
    \/ VerifyPayment /\ UNCHANGED notPayment
    \/ RetryFailedPayment /\ UNCHANGED notPayment
    \/ ChainResponds /\ UNCHANGED notPayment
    \/ Tick /\ UNCHANGED notPayment

PaymentSpec == Init /\ [][PaymentNext]_vars

\* the bot process: start, mentions, payment confirmations, checkpoints,
\* observed during the first MaxSlack ms after start-up
BotNext ==
    \/ Start /\ UNCHANGED notBot
    \/ Shutdown /\ UNCHANGED notBot
    \/ SaveCheckpoint /\ UNCHANGED notBot
    \/ BotHandleMention /\ UNCHANGED notBot
    \/ BotHandlePaymentConfirmation /\ UNCHANGED notBot
    \/ BotChainResponds /\ UNCHANGED notBot
    \/ (Tick /\ now' <= MaxSlack) /\ UNCHANGED notPayment

BotSpec == Init /\ [][BotNext]_vars

\* one run of the bot process and the replies it handles: payment
\* confirmations and 'retry:' replies
ReplyNext ==
    \/ Start /\ UNCHANGED notBot
    \/ BotHandleMention /\ UNCHANGED notBot
    \/ BotHandlePaymentConfirmation /\ UNCHANGED notBot
    \/ BotHandlePaymentRecovery /\ UNCHANGED notBot
    \/ BotChainResponds /\ UNCHANGED notBot
    \/ MusicServiceGenerateMusic /\ UNCHANGED notBot
    \/ (Tick /\ now' <= MaxSlack) /\ UNCHANGED notPayment

ReplySpec == Init /\ [][ReplyNext]_vars

\* a RateLimiter constructed with any of the ceilings
RateInit == QInit /\ PInit /\ BInit /\ SInit /\ TInit /\ OInit /\ WInit
            /\ MInit(<<"mubert", "suno">>, "mubert") /\ \E c \in Ceilings : RInit(c)

RateNext ==
    \/ CheckLimit /\ UNCHANGED notRate
    \/ GetTimeUntilReset /\ UNCHANGED notRate
    \/ Cleanup /\ UNCHANGED notRate
    \/ RateTick /\ UNCHANGED notRate

RateSpec == RateInit /\ [][RateNext]_vars

SchedNext ==
    \/ RegisterJob /\ UNCHANGED notSched
    \/ SchedStart /\ UNCHANGED notSched
    \/ SchedStop /\ UNCHANGED notSched
    \/ PauseJob /\ UNCHANGED notSched
    \/ ResumeJob /\ UNCHANGED notSched
    \/ RemoveJob /\ UNCHANGED notSched
    \/ TimerFires /\ UNCHANGED notSched
    \/ RunJobNow /\ UNCHANGED notSched
    \/ RunAllJobs /\ UNCHANGED notSched
    \/ TaskEnds /\ UNCHANGED notSched

SchedSpec == Init /\ [][SchedNext]_vars

RetryNext ==
    \/ Retry /\ UNCHANGED notRetry
    \/ OperationResolves /\ UNCHANGED notRetry
    \/ OperationRejects /\ UNCHANGED notRetry
    \/ RetryWakes /\ UNCHANGED notRetry

RetrySpec == Init /\ [][RetryNext]_vars

ProviderInit ==
    /\ QInit /\ PInit /\ BInit /\ SInit /\ TInit /\ RInit(defaultRequestsPerHour)
    /\ OInit /\ WInit
    /\ \E provs \in Configurations, i \in DOMAIN ProviderNames :
          MInit(provs, ProviderNames[i])

ProviderNext ==
    \/ GenerateMusic /\ UNCHANGED notProvider
    \/ ProviderResolves /\ UNCHANGED notProvider
    \/ ProviderRejects /\ UNCHANGED notProvider
    \/ SetProvider /\ UNCHANGED notProvider

ProviderSpec == ProviderInit /\ [][ProviderNext]_vars

notMention == <<qvars, pvars, bvars, lvars, svars, tvars, mvars, wvars>>

MentionNext ==
    \/ MentionArrives /\ UNCHANGED notMention
    \/ ReplySent /\ UNCHANGED notMention
    \/ ReplyRaises /\ UNCHANGED notMention
    \/ MentionRetryWakes /\ UNCHANGED notMention
    \/ NotificationSettles /\ UNCHANGED notMention
    \/ QueueWakes /\ UNCHANGED notMention

MentionSpec == Init /\ [][MentionNext]_vars

notWebhook == <<qvars, bvars, lvars, svars, tvars, mvars, ovars>>

WebhookNext ==
    \/ HandleMention /\ UNCHANGED wvars /\ UNCHANGED notWebhook
    \/ HandleWebhook /\ UNCHANGED notWebhook
    \/ WebhookChainResponds /\ UNCHANGED notWebhook
    \/ Tick /\ UNCHANGED wvars /\ UNCHANGED notWebhook

WebhookSpec == Init /\ [][WebhookNext]_vars

(***************************************************************************)
(* Properties of QueueManager                                              *)
(***************************************************************************)
InQueue(id) == \E k \in DOMAIN queue : queue[k] = id
Removed(id) == id <= Len(fate) /\ fate[id] # "queued"
Executing == {i \in DOMAIN loops : loops[i].pc = "exec"}

\* C3: with maxRetries = 3, an always-failing task A followed by B and C is
\* executed exactly 3 times and dropped; then B and C run once each, B first.
C3_FailingTaskRunsMaxRetriesTimes ==
    ( /\ Len(tasks) = 3
      /\ tasks[1].kind = "fail" /\ tasks[2].kind = "ok" /\ tasks[3].kind = "ok"
      /\ queue = <<>> )
    => /\ log = <<1, 1, 1, 2, 3>>
       /\ fate = <<"dropped", "done", "done">>

\* C4: at most one task operation is in flight and at most one processing
\* loop is active, whenever addTask is called.
C4_OneTaskInFlight ==
    /\ Cardinality(Executing) <= 1
    /\ Len(loops) <= 1

C4_Witness ==
    /\ Len(loops) = 1
    /\ loops[1].pc = "sleep"
    /\ Len(queue) = 3

\* C5: executions start in the order the tasks were added; a task is first
\* attempted only after every earlier task succeeded or was dropped, so all
\* retries of a task precede any attempt of a later one.
C5_FifoWithInPlaceRetry ==
    /\ \A i, j \in DOMAIN log : i < j => log[i] <= log[j]
    /\ \A k \in DOMAIN log : \A x \in 1..(log[k] - 1) : fate[x] \in {"done", "dropped"}

C5_Witness ==
    /\ Len(log) >= 3
    /\ log[1] = 1 /\ log[2] = 1 /\ log[3] = 2

\* C6: when every task operation terminates, every task added is eventually
\* removed from the queue; a non-empty queue always has an active loop; and
\* whenever the queue is empty the processing flag is false.
C6_EveryTaskLeavesTheQueue ==
    /\ \A id \in 1..MaxTasks : InQueue(id) ~> Removed(id)
    /\ [](queue # <<>> => (processing /\ loops # <<>>))
    /\ [](queue = <<>> => ~processing)

C6_Witness ==
    /\ Len(fate) >= 2
    /\ fate[1] = "dropped"
    /\ fate[2] = "done"
    /\ queue = <<>>
    /\ ~processing

(***************************************************************************)
(* Properties of PaymentService                                            *)
(***************************************************************************)
\* the step just taken is a call of verifyPayment: made directly, or by
\* retryFailedPayment after it found a failure record
IsVerifyCall(r) ==
    /\ r.op \in {"verifyPayment", "retryFailedPayment"}
    /\ r.path \in {"notfound", "expired", "maxretries"}
       \/ (r.path = "chain" /\ r.result = "awaiting")

\* the step just taken is a call of retryFailedPayment
IsRetryCall(r) ==
    /\ r.op = "retryFailedPayment"
    /\ ~(r.path = "chain" /\ r.result # "awaiting")

\* the step just taken is the return of a verifyPayment call
IsVerifyReturn(r) ==
    /\ r.op \in {"verifyPayment", "retryFailedPayment"}
    /\ r.path # "norecord"
    /\ r.result \in {"true", "false"}

\* C1: a chain-negative verification of a pending, unexpired payment leaves
\* it pending while fewer than maxAttempts failures are recorded, and makes
\* it failed when it records the maxAttempts-th failure.
C1_FailsOnMaxAttemptsThFailure ==
    [][ ( /\ IsVerifyReturn(ret') /\ ret'.path = "chain" /\ ret'.result = "false"
          /\ heap[ret'.obj].status = "pending"
          /\ ~hasPaymentExpired(heap[ret'.obj], now) )
        => LET n == failedPayments'[ret'.orderId].attempts
           IN /\ n < maxAttempts => heap'[ret'.obj].status = "pending"
              /\ n = maxAttempts => heap'[ret'.obj].status = "failed"
      ]_vars

\* C2: a payment's status only ever moves pending -> completed,
\* pending -> failed, or failed -> pending inside retryFailedPayment together
\* with the attempt counter being reset to 0.
C2_StatusTransitions ==
    [][ \A i \in DOMAIN heap :
          LET a == heap[i].status
              b == heap'[i].status
              o == heap[i].orderId
          IN \/ a = b
             \/ a = "pending" /\ b \in {"completed", "failed"}
             \/ /\ a = "failed" /\ b = "pending"
                /\ ret'.op = "retryFailedPayment"
                /\ o \in DOMAIN failedPayments'
                /\ failedPayments'[o].attempts = 0
      ]_vars

\* C7: a verifyPayment call made more than maxVerificationTime after the
\* payment was created returns false at once, leaves the status failed and
\* does not consult the chain, whatever proof is given; at exactly
\* maxVerificationTime the payment is not treated as expired.
C7_ExpiredPaymentFails ==
    [][ (IsVerifyCall(ret') /\ ret'.obj # 0)
        => LET age == now - heap[ret'.obj].timestamp
           IN /\ age > maxVerificationTime =>
                    /\ ret'.result = "false"
                    /\ ret'.path = "expired"
                    /\ heap'[ret'.obj].status = "failed"
                    /\ inflight' = inflight
              /\ age = maxVerificationTime => ret'.path # "expired"
      ]_vars

C7_Witness ==
    /\ ret.path = "expired"
    /\ ret.txHash = "txGood"
    /\ now - heap[ret.obj].timestamp = maxVerificationTime + 1
    /\ ret.orderId \in DOMAIN failedPayments

\* C8: a verifyPayment call made on a completed order returns true and
\* changes neither the ledger, the failure records nor the stored request.
C8_VerifyCompletedIsIdempotent ==
    [][ ( /\ ret'.op = "verifyPayment" /\ ret'.atCall = "completed"
          /\ ret'.result # "awaiting" )
        => /\ ret'.result = "true"
           /\ UNCHANGED <<heap, payments, failedPayments, requests>>
      ]_vars

\* C9: verifyPayment on an orderId the ledger does not hold fails with
\* NotFound, an outcome distinct from a negative verification.
C9_UnknownOrderIsNotFound ==
    (ret.op = "verifyPayment" /\ ret.obj = 0) => ret.result = "NotFound"

C11_FailedLeftOnlyByRetry ==
    [][ \A i \in DOMAIN heap :
          (heap[i].status = "failed" /\ heap'[i].status # "failed")
          => ret'.op = "retryFailedPayment"
      ]_vars

\* C24: retryFailedPayment on an order with a failure record and status
\* failed resets the attempt counter to 0 and moves the status back to
\* pending before the verification it starts.
C24_RetryReopensTheOrder ==
    [][ ( /\ IsRetryCall(ret')
          /\ ret'.orderId \in DOMAIN failedPayments
          /\ ret'.atCall = "failed"
          /\ ret'.result = "awaiting" )
        => /\ failedPayments'[ret'.orderId].attempts = 0
           /\ heap'[ret'.obj].status = "pending"
      ]_vars

\* C26: when the chain request raises during verifyPayment on a known,
\* unexpired order, the call returns false, the attempt counter grows by
\* exactly one, and the failure record's error is the exception's message.
C26_CapabilityErrorIsRecorded ==
    [][ (IsVerifyReturn(ret') /\ ret'.raised) =>
          LET o == ret'.orderId
              before == IF o \in DOMAIN failedPayments
                        THEN failedPayments[o].attempts ELSE 0
          IN /\ ret'.result = "false"
             /\ o \in DOMAIN failedPayments'
             /\ failedPayments'[o].attempts = before + 1
             /\ failedPayments'[o].error = RpcErrorMessage
      ]_vars

\* C35: every failure record of the ledger belongs to an order the ledger
\* holds and counts at most maxAttempts attempts.
C35_FailureRecordsBounded ==
    \A o \in DOMAIN failedPayments :
        /\ o \in DOMAIN payments
        /\ failedPayments[o].attempts <= maxAttempts

(***************************************************************************)
(* Properties of the bot: ledger, RequestStore and checkpoints             *)
(***************************************************************************)
\* C12: every createPaymentRequest call returns an orderId the ledger does
\* not hold yet, so it overwrites no entry; the new entry is pending and has
\* no recorded attempts.
C12_OrderIdsAreUnique ==
    [][ ret'.op = "createPaymentRequest"
        => /\ ret'.orderId \notin DOMAIN payments
           /\ heap'[ret'.obj].status = "pending"
           /\ ret'.orderId \notin DOMAIN failedPayments'
      ]_vars

\* C13: every stored request holds one payment, and the orderId stored for a
\* correlation id is the same after every step that keeps the id in the store.
C13_OrderIdOfRequestIsImmutable ==
    [][ /\ \A j \in DOMAIN requests' : requests'[j].payment \in DOMAIN heap'
        /\ \A i \in DOMAIN requests : \A j \in DOMAIN requests' :
              requests[i].tweetId = requests'[j].tweetId
              => heap[requests[i].payment].orderId = heap'[requests'[j].payment].orderId
      ]_vars

\* C25: whenever verifyPayment returns true the order is completed in the
\* ledger and in every RequestStore entry carrying its orderId, and the ledger
\* holds no failure record for it; a call that moved the order to completed
\* never returns false.
C25_TrueIffCompleted ==
    [][ IsVerifyReturn(ret') =>
          /\ ret'.result = "true" =>
                /\ ret'.orderId \in DOMAIN payments'
                /\ heap'[payments'[ret'.orderId]].status = "completed"
                /\ \A i \in DOMAIN requests' :
                      heap'[requests'[i].payment].orderId = ret'.orderId
                      => heap'[requests'[i].payment].status = "completed"
                /\ ret'.orderId \notin DOMAIN failedPayments'
          /\ ret'.result = "false" =>
                IF ret'.obj = 0 THEN TRUE
                ELSE ~(heap[ret'.obj].status # "completed"
                       /\ heap'[ret'.obj].status = "completed")
      ]_vars

\* C21: the generation provider is invoked for a request only while the
\* ledger status of that request's order is completed, whichever reply
\* handler started the generation.
C21_GenerationOnlyWhenCompleted ==
    \A k \in DOMAIN generation :
        generation[k].stage = "generating" => generation[k].status = "completed"

\* C31: a recovery that reaches the snapshot's items attempts every one of
\* them, the requests first and the payments after them, and ends normally:
\* an item whose re-insertion raises is skipped, and every other request is in
\* the store afterwards, every other payment's status written to its request.
C31_FailingItemIsSkipped ==
    [][ (ret'.op = "recoverFromLastCheckpoint" /\ ret'.log # <<>>) =>
          LET R == checkpoint.pendingRequests
              P == checkpoint.pendingPayments
              lg == ret'.log
          IN /\ ret'.result = "recovered"
             /\ Len(lg) = Len(R) + Len(P)
             /\ \A k \in DOMAIN R :
                    /\ lg[k].kind = "request" /\ lg[k].id = R[k].tweetId
                    /\ lg[k].ok => getRequest(requests', R[k].tweetId) # 0
             /\ \A k \in DOMAIN P :
                    /\ lg[Len(R) + k].kind = "payment"
                    /\ lg[Len(R) + k].id = P[k].tweetId
                    /\ lg[Len(R) + k].ok =>
                          \A i \in DOMAIN requests' :
                              heap'[requests'[i].payment].orderId = P[k].orderId
                              => heap'[requests'[i].payment].status = P[k].status
      ]_vars

\* a recovery skipped the first request of a snapshot of two and re-inserted
\* the second; one of the two payments was skipped as well
C31_Witness ==
    /\ ret.op = "recoverFromLastCheckpoint"
    /\ ret.result = "recovered"
    /\ Len(ret.log) = 4
    /\ ~ret.log[1].ok /\ ret.log[2].ok
    /\ ~ret.log[3].ok /\ ret.log[4].ok
    /\ Len(requests) = 1
    /\ requests[1].tweetId = ret.log[2].id

\* C36: while no verification is suspended, every stored request whose
\* orderId the ledger holds shows the payment status of the ledger's entry.
C36_StoreAgreesWithLedger ==
    inflight = <<>> =>
        \A i \in DOMAIN requests :
            LET o == heap[requests[i].payment].orderId
            IN o \in DOMAIN payments =>
                  heap[requests[i].payment].status = heap[payments[o]].status

\* C39: verifyPayment is never answered through the not-found path for the
\* orderId of a stored request whose payment is pending; in particular not
\* for a request that recoverFromLastCheckpoint put back after a restart.
C39_RecoveredPendingIsVerifiable ==
    [][ (ret'.op = "verifyPayment" /\ ret'.path = "notfound") =>
          ~\E i \in DOMAIN requests :
              /\ heap[requests[i].payment].orderId = ret'.orderId
              /\ heap[requests[i].payment].status = "pending"
      ]_vars

\* C19: after saveCheckpoint and a recovery into a fresh RequestStore, the
\* store holds the correlation ids it held at save time, each with the
\* payment status it had then.
C19_CheckpointRoundTrip ==
    (ret.op = "recoverFromLastCheckpoint" /\ ret.result = "recovered")
    => StoreView(heap, requests) = savedStore

(***************************************************************************)
(* Properties of RateLimiter                                               *)
(***************************************************************************)
\* the window checkLimit finds for u is still open at the limiter's clock
InWindow(u) == u \in DOMAIN limits /\ rnow <= limits[u].resetTime

\* C14: within a window exactly the first `ceiling` checkLimit calls return
\* true and every further call made while now <= resetAt returns false; a
\* call made without a window or when now > resetAt returns true and sets
\* the window to count 1, resetAt = now + 1 hour.
C14_CeilingCallsAllowedPerWindow ==
    [][ rret'.op = "checkLimit"
        => LET u == rret'.userId
           IN IF InWindow(u)
              THEN /\ rret'.result = (Len(answers[u]) < maxRequestsPerHour)
                   /\ limits'[u].resetTime = limits[u].resetTime
              ELSE /\ rret'.result = TRUE
                   /\ limits'[u] = [count |-> 1, resetTime |-> rnow + hour]
      ]_vars

C14_Witness ==
    /\ rret.op = "checkLimit"
    /\ rret.result = FALSE
    /\ rnow = limits[rret.userId].resetTime
    /\ Len(answers[rret.userId]) = maxRequestsPerHour + 1

\* C15: for every identity and ceiling, while the window's resetAt is in the
\* future its count is at most the ceiling, and a window is created with
\* count 1.
C15_CountWithinCeiling ==
    /\ \A u \in DOMAIN limits :
          rnow <= limits[u].resetTime => limits[u].count <= maxRequestsPerHour
    /\ \A u \in DOMAIN limits :
          Len(answers[u]) = 1 => (limits[u].count = 1 /\ answers[u][1])

C15_Witness ==
    \E u \in DOMAIN limits :
        /\ rnow < limits[u].resetTime
        /\ limits[u].count = maxRequestsPerHour
        /\ Len(answers[u]) > maxRequestsPerHour
        /\ maxRequestsPerHour = defaultRequestsPerHour

\* C20: saveCheckpoint and recoverFromLastCheckpoint never raise to their
\* caller; without a snapshot the recovery leaves the store as it was.
C20_CheckpointFailuresAreNotRaised ==
    /\ ret.op \in {"saveCheckpoint", "recoverFromLastCheckpoint"} => ret.result # "raised"
    /\ (ret.op = "recoverFromLastCheckpoint" /\ ret.result = "fresh") => requests = <<>>


(***************************************************************************)
(* SchedulerService properties                                             *)
(***************************************************************************)
\* the invocations of job.task() in flight for a job id
InFlight(id) == {i \in DOMAIN invocations : jobObjs[invocations[i].obj].id = id}

\* the job registered under id has its running flag set
Busy(id) ==
    IF mapGet(jobs, id) = 0 THEN FALSE ELSE jobObjs[mapGet(jobs, id)].isRunning

\* C16: for every job id at most one invocation of the job's action is in
\* flight at any time, whatever the interleaving of ticks, runJobNow,
\* runAllJobs, pauseJob, resumeJob, removeJob, re-registration, start and stop.
C16_AtMostOneInFlightPerJob ==
    \A id \in JobIds : Cardinality(InFlight(id)) <= 1

\* C17: runJobNow(id) on a job whose running flag is set raises, emits no
\* start notification, invokes nothing and leaves every job's running flag and
\* lastRun as they were; the invocation in flight stays in flight, and the
\* step that ends an invocation clears the flag of the job it ran.
C17_BusyRunJobNowIsRejected ==
    [][ /\ (sret'.op = "runJobNow" /\ Busy(sret'.id)) =>
              /\ sret'.result = "raised"
              /\ sret'.emits = <<>>
              /\ jobObjs' = jobObjs
              /\ invocations' = invocations
        /\ sret'.op = "taskEnds" =>
              /\ ~jobObjs'[sret'.obj].isRunning
              /\ Len(invocations) >= 1
      ]_vars

C17_Witness ==
    /\ sret.op = "runJobNow"
    /\ sret.result = "raised"
    /\ Busy(sret.id)
    /\ \E i \in DOMAIN invocations : invocations[i].obj = mapGet(jobs, sret.id)

\* C18: no periodic tick invokes a job while the scheduler is not started,
\* that is before the first start() or after a stop() and before the next
\* start().
C18_TicksOnlyWhileStarted ==
    [][ (sret'.op = "tick" /\ sret'.result = "started") => schedRunning ]_vars

\* the completion and error notifications among the notifications of a step
Outcomes(emits) == SelectSeq(emits, LAMBDA e : e \in {"jobComplete", "jobError"})

\* C27: a dispatch that is not skipped (periodic tick or runJobNow) marks the
\* job running and emits jobStart alone; the end of the invocation emits
\* exactly one of jobComplete and jobError, first, and clears the running
\* flag whether the action succeeded or failed, so that a tick of the job
\* dispatches it again.
C27_StartThenOneOutcomeThenIdle ==
    [][ /\ (sret'.op \in {"tick", "runJobNow", "runAllJobs"} /\ sret'.result = "started") =>
              /\ sret'.emits = <<"jobStart">>
              /\ ~jobObjs[sret'.obj].isRunning
              /\ jobObjs'[sret'.obj].isRunning
              /\ Len(invocations') = Len(invocations) + 1
              /\ invocations'[Len(invocations')].obj = sret'.obj
        /\ sret'.op = "taskEnds" =>
              /\ Len(Outcomes(sret'.emits)) = 1
              /\ sret'.emits[1] = (IF sret'.result = "failed" THEN "jobError"
                                                               ELSE "jobComplete")
              /\ jobObjs[sret'.obj].isRunning
              /\ ~jobObjs'[sret'.obj].isRunning
              /\ tick(jobObjs', sret'.obj).result = "started"
      ]_vars

\* a tick dispatches the only Job object there is, after its one earlier
\* invocation has failed
C27_Witness ==
    /\ sret.op = "tick"
    /\ sret.result = "started"
    /\ Len(jobObjs) = 1
    /\ runs = 2
    /\ sclock = 1
    /\ jobObjs[1].lastRun = 0

\* C28: the end of every invocation records lastRun, whether the action
\* succeeded or failed.
C28_LastRunRecordedOnEveryEnd ==
    [][ sret'.op = "taskEnds" => jobObjs'[sret'.obj].lastRun = sclock' ]_vars

\* C29: stop() leaves no periodic trigger alive, and leaves the invocations
\* in flight and their running flags as they are.
C29_StopRemovesEveryTrigger ==
    [][ sret'.op = "stop" =>
          /\ \A k \in DOMAIN timers' : ~timers'[k].live
          /\ invocations' = invocations
          /\ jobObjs' = jobObjs
      ]_vars

\* the live timers whose callback runs a Job object registered under id
LiveTriggers(id) ==
    {k \in DOMAIN timers : timers[k].live /\ jobObjs[timers[k].obj].id = id}

\* C37: each job id has at most one live timer, and every live timer is the
\* one this.intervals holds for its job id.
C37_OneTrackedTriggerPerJob ==
    /\ \A id \in JobIds : Cardinality(LiveTriggers(id)) <= 1
    /\ \A k \in DOMAIN timers :
          timers[k].live =>
              LET id == jobObjs[timers[k].obj].id
              IN id \in DOMAIN intervals /\ intervals[id] = k

\* C30: cleanup() removes no window whose resetTime has not passed, and
\* cleanup() calls placed anywhere among the checkLimit and getTimeUntilReset
\* calls change none of their results: each result is the one the same calls
\* give on a limiter that was never cleaned.
C30_CleanupIsTransparent ==
    [][ /\ rret'.op = "cleanup" =>
              \A u \in DOMAIN limits :
                  rnow <= limits[u].resetTime
                  => (u \in DOMAIN limits' /\ limits'[u] = limits[u])
        /\ rret'.op = "checkLimit" =>
              rret'.result = checkLimit(uncleaned, maxRequestsPerHour, rnow,
                                        rret'.userId).result
        /\ rret'.op = "getTimeUntilReset" =>
              rret'.time = getTimeUntilReset(uncleaned, rnow, rret'.userId)
      ]_vars

\* getTimeUntilReset is asked about a window cleanup() has removed, while
\* the window of another user is still open
C30_Witness ==
    /\ rret.op = "getTimeUntilReset"
    /\ rret.userId \in DOMAIN uncleaned
    /\ rret.userId \notin DOMAIN limits
    /\ \E u \in DOMAIN limits : rnow <= limits[u].resetTime

(***************************************************************************)
(* RetryManager properties                                                 *)
(***************************************************************************)
\* the failed attempts that were not the final one
NonFinalFailures ==
    IF tpc = "raised" /\ Len(thrown) > 0 THEN Len(thrown) - 1 ELSE Len(thrown)

\* C22: retry invokes the operation at most maxAttempts times; it returns the
\* result of the first attempt that succeeds and makes no attempt after it;
\* when all maxAttempts attempts have failed it raises the error of the last
\* one (as an Error); the observer is called once after each failed attempt
\* but the final one, in order, with that attempt's error and number.
C22_BoundedRetry ==
    variant = "retry" =>
    /\ calls <= options.maxAttempts
    /\ tpc = "returned" =>
          (results = <<outcome>> /\ outcome.kind = "value" /\ calls = Len(thrown) + 1)
    /\ (tpc = "raised" /\ calls > 0) =>
          /\ calls = options.maxAttempts
          /\ Len(thrown) = calls
          /\ outcome = toError(thrown[Len(thrown)])
    /\ tpc \in {"calling", "sleeping"} => outcome = NoOutcome
    /\ observed = IF options.onRetry
                  THEN [k \in 1..NonFinalFailures |->
                           [error |-> toError(thrown[k]), attempt |-> k]]
                  ELSE <<>>

\* three attempts have failed, the last with a value that is not an Error,
\* and the observer has seen the first two
C22_Witness ==
    /\ variant = "retry"
    /\ tpc = "raised"
    /\ calls = 3
    /\ options.onRetry
    /\ Len(observed) = 2
    /\ thrown[3].kind = "string"
    /\ thrown[2] # thrown[3]

\* C33: in retry and in retryWithCondition the wait before attempt k (k >= 2)
\* is delay * 2^(k-2) with backoff and delay without it; exactly one wait
\* precedes each attempt after the first, and none follows the final attempt.
C33_BackoffSchedule ==
    /\ \A k \in 2..(Len(slept) + 1) :
          slept[k - 1] = IF options.backoff THEN options.delay * 2^(k - 2)
                         ELSE options.delay
    /\ tpc = "calling" => Len(slept) = attempt - 1
    /\ tpc = "sleeping" => Len(slept) = attempt /\ attempt < options.maxAttempts
    /\ (tpc \in {"returned", "raised"} /\ calls > 0) => Len(slept) = calls - 1

\* a retryWithCondition call with backoff is in its third attempt after one
\* attempt that raised and one whose result the condition rejected
C33_Witness ==
    /\ variant = "retryWithCondition"
    /\ options.backoff /\ options.delay = 2000
    /\ tpc = "calling" /\ attempt = 3
    /\ slept = <<2000, 4000>>
    /\ Len(thrown) = 1 /\ Len(results) = 1

\* C34: retryWithCondition invokes the operation at most maxAttempts times,
\* returns only a result that satisfies the condition, namely the first such
\* result, and raises 'Condition not met after all attempts' when the final
\* attempt yields a result that does not satisfy it.
C34_ConditionalRetry ==
    variant = "retryWithCondition" =>
    /\ calls <= options.maxAttempts
    /\ tpc = "returned" =>
          /\ condition(outcome)
          /\ outcome = results[Len(results)]
          /\ \A i \in 1..(Len(results) - 1) : ~condition(results[i])
          /\ calls = Len(thrown) + Len(results)
    /\ (tpc = "raised" /\ calls > 0) =>
          /\ calls = options.maxAttempts
          /\ \A i \in DOMAIN results : ~condition(results[i])
          /\ outcome.kind = "Error"
          /\ Len(thrown) + Len(results) > calls
             => outcome.message = "Condition not met after all attempts"
          /\ Len(thrown) + Len(results) = calls
             => outcome = toError(thrown[Len(thrown)])

\* three attempts: one raised, two yielded results the condition rejected,
\* the last of them on the final attempt
C34_Witness ==
    /\ variant = "retryWithCondition"
    /\ tpc = "raised"
    /\ calls = 3
    /\ Len(results) = 2
    /\ Len(thrown) = 2
    /\ thrown[1].message = "e1"
    /\ outcome.message = "Condition not met after all attempts"

(***************************************************************************)
(* MusicProviderManager properties                                         *)
(***************************************************************************)
\* C23: within one generateMusic call the current provider is invoked first,
\* then the other configured providers in registration order, none of them
\* twice; the call returns the result of the first provider that succeeds,
\* and raises 'All providers failed' only when every configured provider has
\* failed.
C23_EachProviderAtMostOnce ==
    /\ \A i, j \in DOMAIN invoked : i # j => invoked[i] # invoked[j]
    /\ invoked # <<>> => invoked[1] = atCall
    /\ \A i, j \in 2..Len(invoked) :
          i < j => providerPos(providers, invoked[i]) < providerPos(providers, invoked[j])
    /\ gpc = "returned" =>
          /\ goutcome = invoked[Len(invoked)]
          /\ failed = {invoked[i] : i \in 1..(Len(invoked) - 1)}
    /\ (gpc = "raised" /\ goutcome = "All providers failed") =>
          failed = {providers[i] : i \in DOMAIN providers}

(***************************************************************************)
(* Mention pipeline properties                                             *)
(***************************************************************************)
\* C32: a mention that a checkLimit call denied was never enqueued, created
\* no payment request and stored no request.
C32_DeniedMentionNeverEnqueued ==
    \A id \in DOMAIN mentions :
        mentions[id].denials > 0 =>
            /\ ~mentions[id].enqueued
            /\ mentions[id].created = 0
            /\ id \notin stored

\* C38: handling one mention takes at most one unit of its author's quota
\* from the bot's limiter, however often the retry wrapper or the queue runs
\* the mention's operation again.
C38_OneUnitPerMention ==
    \A id \in DOMAIN mentions : mentions[id].units <= 1

(***************************************************************************)
(* WebhookService properties                                               *)
(***************************************************************************)
\* C40: paymentConfirmed is emitted for a key only when the verifyPayment
\* call of that webhook returned true and the ledger status of the key is
\* completed.
C40_ConfirmedOnlyWhenVerified ==
    \A k \in DOMAIN emitted :
        emitted[k].event = "paymentConfirmed" =>
            emitted[k].verified /\ emitted[k].status = "completed"

====
